---------------------------- MODULE Spec2Model ----------------------------
(***************************************************************************)
(* Model of the EvoNEST mechanical-data pipeline                           *)
(* (src/src/python/process_mechanical_data.py).                            *)
(*                                                                         *)
(* Numbers.  Stress and strain samples are integers.  The configured       *)
(* drop_threshold is a float in the program; here it is carried in tenths  *)
(* (DropScale = 10), so that  stress < max_stress * (1 - drop_threshold)   *)
(* is the exact comparison  stress*10 < max_stress*(10 - tenths).          *)
(* Floating-point rounding of that product is not modelled.               *)
(* Indices are 0-based as in the program; At(s, i) reads s[i].             *)
(*                                                                         *)
(* Exceptions.  An operator that models a function which can raise returns *)
(* a record whose tag names the exception; the callers' except clauses are *)
(* modelled by the sets of tags they catch.                                *)
(***************************************************************************)
EXTENDS Integers, Sequences, FiniteSets, TLC

(***************************************************************************)
(* Bounds of the model                                                     *)
(***************************************************************************)
MaxLen == 11       \* longest raw curve
MaxHead == 2       \* longest first segment of a generated stress curve
MaxTail == 2       \* longest last segment of a generated stress curve
MaxBatch == 2      \* largest experiment collection
MaxMinPoints == 1  \* largest configured min_points of the generated configs

(***************************************************************************)
(* Program constants                                                       *)
(***************************************************************************)
DetectMargin == 10     \* detect_fracture_point: len(stress) < min_points + 10
MinFitPoints == 10     \* fit_polynomial_to_experiment: len(strain) < 10
DropScale == 10        \* drop_threshold is carried in tenths

(***************************************************************************)
(* Sequences, 0-based                                                      *)
(***************************************************************************)
At(s, i) == s[i + 1]
Indices(s) == 0 .. (Len(s) - 1)
Abs(x) == IF x < 0 THEN -x ELSE x
Const(v, n) == [i \in 1 .. n |-> v]

\* Python slice s[lo:hi] for 0 <= lo, 0 <= hi
Slice(s, lo, hi) ==
    LET h == IF hi > Len(s) THEN Len(s) ELSE hi
    IN  IF lo >= h THEN << >> ELSE [i \in 1 .. (h - lo) |-> s[lo + i]]

RECURSIVE SumSeq(_)
SumSeq(s) == IF s = << >> THEN 0 ELSE Head(s) + SumSeq(Tail(s))

RECURSIVE MinSeq(_)
MinSeq(s) == IF Len(s) = 1 THEN s[1]
             ELSE LET m == MinSeq(Tail(s)) IN IF s[1] < m THEN s[1] ELSE m

RECURSIVE MaxSeq(_)
MaxSeq(s) == IF Len(s) = 1 THEN s[1]
             ELSE LET m == MaxSeq(Tail(s)) IN IF s[1] > m THEN s[1] ELSE m

\* np.argmax: one left-to-right pass that keeps the first largest element
RECURSIVE ArgMaxScan(_, _, _)
\* (variant: keeps the last largest element)
ArgMaxScanLast(s, i, best) ==
    IF i >= Len(s) THEN best
    ELSE ArgMaxScan(s, i + 1, IF At(s, i) >= At(s, best) THEN i ELSE best)
ArgMaxScan(s, i, best) ==
    IF i >= Len(s) THEN best
    ELSE ArgMaxScan(s, i + 1, IF At(s, i) > At(s, best) THEN i ELSE best)
ArgMax(s) == ArgMaxScan(s, 1, 0)

\* np.argmin(np.abs(strain)): first smallest absolute value
RECURSIVE ArgMinAbsScan(_, _, _)
\* (variant: keeps the last smallest absolute value)
ArgMinAbsScanLast(s, i, best) ==
    IF i >= Len(s) THEN best
    ELSE ArgMinAbsScan(s, i + 1,
                       IF Abs(At(s, i)) <= Abs(At(s, best)) THEN i ELSE best)
ArgMinAbsScan(s, i, best) ==
    IF i >= Len(s) THEN best
    ELSE ArgMinAbsScan(s, i + 1,
                       IF Abs(At(s, i)) < Abs(At(s, best)) THEN i ELSE best)
ArgMinAbs(s) == ArgMinAbsScan(s, 1, 0)

(***************************************************************************)
(* Return values                                                           *)
(***************************************************************************)
NoIdx == [tag |-> "none", idx |-> 0]
SomeIdx(i) == [tag |-> "idx", idx |-> i]
RaisedIdx(e) == [tag |-> e, idx |-> 0]


(***************************************************************************)
(* Configuration (ConfigManager.DEFAULT_CONFIG and the values a config     *)
(* file can hold).  drop_threshold is in tenths; max_experiments = 0       *)
(* stands for None (no cap).                                               *)
(***************************************************************************)
DEFAULT_CONFIG ==
    [stop_max_stress |-> FALSE, drop_threshold |-> 9, min_points |-> 1,
     polynomial_degree |-> 1, save_plots |-> FALSE, max_experiments |-> 0]

\* the ranges the interactive prompts enforce on what the user types
InRange(c) ==
    /\ c.drop_threshold >= 0 /\ c.drop_threshold <= DropScale
    /\ c.min_points >= 0
    /\ c.polynomial_degree >= 1

(***************************************************************************)
(* MechanicalDataProcessor.detect_fracture_point                           *)
(***************************************************************************)
\* current_stress < max_stress * (1 - self.drop_threshold)
BelowDrop(current_stress, max_stress, drop_threshold) ==
    current_stress * DropScale < max_stress * (DropScale - drop_threshold)

\* for i in range(max_stress_idx, len(stress) - self.min_points): ...
RECURSIVE ScanDrop(_, _, _, _, _)
ScanDrop(stress, i, stop, max_stress, drop_threshold) ==
    IF i >= stop THEN NoIdx
    ELSE IF i >= Len(stress) THEN RaisedIdx("IndexError")
    ELSE IF BelowDrop(At(stress, i), max_stress, drop_threshold) THEN SomeIdx(i)
    ELSE ScanDrop(stress, i + 1, stop, max_stress, drop_threshold)

\* the index the scan stops before: len(stress) - self.min_points
\* (variant: one further)
ScanStopInclusive(stress, c) == Len(stress) - c.min_points + 1
ScanStop(stress, c) == Len(stress) - c.min_points

\* (variant: the scan starts at index 0 instead of the max-stress index)
DetectFracturePointFromStart(strain, stress, c) ==
    IF Len(stress) < c.min_points + DetectMargin THEN NoIdx
    ELSE LET max_stress_idx == ArgMax(stress)
             max_stress == At(stress, max_stress_idx)
         IN  IF c.stop_max_stress THEN SomeIdx(max_stress_idx)
             ELSE ScanDrop(stress, 0, ScanStop(stress, c),
                           max_stress, c.drop_threshold)
DetectFracturePoint(strain, stress, c) ==
    IF Len(stress) < c.min_points + DetectMargin THEN NoIdx
    ELSE LET max_stress_idx == ArgMax(stress)
             max_stress == At(stress, max_stress_idx)
         IN  IF c.stop_max_stress THEN SomeIdx(max_stress_idx)
             ELSE ScanDrop(stress, max_stress_idx, ScanStop(stress, c),
                           max_stress, c.drop_threshold)

(***************************************************************************)
(* MechanicalDataProcessor.trim_curve_to_fracture                          *)
(***************************************************************************)
\* ndarray.min() / .max() of the trimmed arrays: ValueError on an empty array
RangeRaises(trimmed) == Len(trimmed) = 0
RangeOf(trimmed) == << MinSeq(trimmed), MaxSeq(trimmed) >>

\* strain[zero_strain_idx:end_idx]
TrimSlice(s, zero_strain_idx, end_idx, fracture) == Slice(s, zero_strain_idx, end_idx)

NoTrim(t) == [tag |-> t, strain |-> << >>, stress |-> << >>]

\* (variant: the two point counts change places)
TrimInfoOfSwapped(strain, trimmed_strain, trimmed_stress, zero_strain_idx, fracture) ==
    [original_points |-> Len(trimmed_strain),
     trimmed_points |-> Len(strain),
     zero_strain_idx |-> zero_strain_idx,
     fracture_idx |-> fracture,
     fracture_detected |-> (fracture.tag = "idx"),
     strain_range |-> RangeOf(trimmed_strain),
     stress_range |-> RangeOf(trimmed_stress),
     max_stress |-> IF Len(trimmed_stress) > 0 THEN MaxSeq(trimmed_stress) ELSE 0]
TrimInfoOf(strain, trimmed_strain, trimmed_stress, zero_strain_idx, fracture) ==
    [original_points |-> Len(strain),
     trimmed_points |-> Len(trimmed_strain),
     zero_strain_idx |-> zero_strain_idx,
     fracture_idx |-> fracture,
     fracture_detected |-> (fracture.tag = "idx"),
     strain_range |-> RangeOf(trimmed_strain),
     stress_range |-> RangeOf(trimmed_stress),
     max_stress |-> IF Len(trimmed_stress) > 0 THEN MaxSeq(trimmed_stress) ELSE 0]

\* (variant: the ranges of an empty trimmed curve do not raise)
TrimAfterDetectUnguarded(strain, stress, fracture) ==
    LET zero_strain_idx == ArgMinAbs(strain)
        end_idx == IF fracture.tag = "idx" THEN fracture.idx ELSE Len(strain)
        trimmed_strain == TrimSlice(strain, zero_strain_idx, end_idx, fracture)
        trimmed_stress == TrimSlice(stress, zero_strain_idx, end_idx, fracture)
    IN  [tag |-> "ok", strain |-> trimmed_strain, stress |-> trimmed_stress,
         trim_info |->
            [original_points |-> Len(strain),
             trimmed_points |-> Len(trimmed_strain),
             zero_strain_idx |-> zero_strain_idx,
             fracture_idx |-> fracture,
             fracture_detected |-> (fracture.tag = "idx"),
             max_stress |-> IF Len(trimmed_stress) > 0
                            THEN MaxSeq(trimmed_stress) ELSE 0]]
TrimAfterDetect(strain, stress, fracture) ==
    LET zero_strain_idx == ArgMinAbs(strain)
        end_idx == IF fracture.tag = "idx" THEN fracture.idx ELSE Len(strain)
        trimmed_strain == TrimSlice(strain, zero_strain_idx, end_idx, fracture)
        trimmed_stress == TrimSlice(stress, zero_strain_idx, end_idx, fracture)
    IN  IF RangeRaises(trimmed_strain) \/ RangeRaises(trimmed_stress)
        THEN NoTrim("ValueError")
        ELSE [tag |-> "ok", strain |-> trimmed_strain, stress |-> trimmed_stress,
              trim_info |-> TrimInfoOf(strain, trimmed_strain, trimmed_stress,
                                       zero_strain_idx, fracture)]

TrimCurveToFracture(strain, stress, c) ==
    IF Len(strain) = 0 \/ Len(stress) = 0 THEN NoTrim("none")
    ELSE LET fracture == DetectFracturePoint(strain, stress, c)
         IN  IF fracture.tag \notin {"idx", "none"} THEN NoTrim(fracture.tag)
             ELSE TrimAfterDetect(strain, stress, fracture)

(***************************************************************************)
(* Raw experiments.  An entry of data['experiments'] is                    *)
(*   kind = "dict"        a JSON object; strain/stress are the 'values'    *)
(*                        arrays of rawData.EngineeringStrain/Stress (an   *)
(*                        absent key reads as the empty array), and        *)
(*                        strainNull/stressNull are the indices that hold  *)
(*                        null;                                            *)
(*   kind = "values_null" a JSON object whose 'values' is null;            *)
(*   kind = "not_dict"    not a JSON object (a list, a string, null).      *)
(***************************************************************************)
RawExperiment(kind, strain, stress, strainNull, stressNull) ==
    [kind |-> kind, strain |-> strain, stress |-> stress,
     strainNull |-> strainNull, stressNull |-> stressNull]

(***************************************************************************)
(* MechanicalDataProcessor.extract_stress_strain_data                      *)
(***************************************************************************)
MinLenOf(e) == IF Len(e.strain) < Len(e.stress) THEN Len(e.strain) ELSE Len(e.stress)

\* the loop that keeps the pairs in which neither value is None
RECURSIVE CleanFrom(_, _, _)
\* (variant: a pair is kept when either of its values is present)
CleanFromEither(e, i, acc) ==
    IF i >= MinLenOf(e) THEN acc
    ELSE CleanFrom(e, i + 1,
                   IF i \notin e.strainNull \/ i \notin e.stressNull
                   THEN [strain |-> Append(acc.strain, At(e.strain, i)),
                         stress |-> Append(acc.stress, At(e.stress, i))]
                   ELSE acc)
CleanFrom(e, i, acc) ==
    IF i >= MinLenOf(e) THEN acc
    ELSE CleanFrom(e, i + 1,
                   IF i \notin e.strainNull /\ i \notin e.stressNull
                   THEN [strain |-> Append(acc.strain, At(e.strain, i)),
                         stress |-> Append(acc.stress, At(e.stress, i))]
                   ELSE acc)
CleanPairs(e) == CleanFrom(e, 0, [strain |-> << >>, stress |-> << >>])

\* except (KeyError, TypeError, ValueError)
ExtractCatches(tag) == tag \in {"KeyError", "TypeError", "ValueError"}

ExtractBody(e, c) ==
    IF e.kind = "not_dict" THEN NoTrim("AttributeError")
    ELSE IF e.kind = "values_null" THEN NoTrim("TypeError")
    ELSE LET clean == CleanPairs(e)
         IN  IF Len(clean.strain) = 0 \/ Len(clean.stress) = 0 THEN NoTrim("none")
             ELSE TrimCurveToFracture(clean.strain, clean.stress, c)

ExtractStressStrainData(e, c) ==
    LET r == ExtractBody(e, c)
    IN  IF ExtractCatches(r.tag) THEN NoTrim("none") ELSE r

(***************************************************************************)
(* The fit of fit_polynomial_to_experiment.  With n samples,               *)
(*   Dxx = n*Sum(x^2) - Sum(x)^2,  Dyy likewise,  Dxy = n*Sum(xy)-SxSy,    *)
(* SST = Dyy/n, and for degree 1 SSE = (Dyy - Dxy^2/Dxx)/n.                *)
(* r_squared = 1 - SSE/SST is kept as a fraction <<num, den>>; SST = 0     *)
(* makes the division 0/0 (or x/0), which numpy evaluates to nan (or       *)
(* -inf) with a warning, not an exception.                                 *)
(***************************************************************************)
RECURSIVE Dot(_, _)
Dot(a, b) == IF a = << >> THEN 0 ELSE Head(a) * Head(b) + Dot(Tail(a), Tail(b))

Dev(a, b) == Len(a) * Dot(a, b) - SumSeq(a) * SumSeq(b)

Undefined == [tag |-> "nan", num |-> 0, den |-> 0]
Fraction(n, d) == [tag |-> "num", num |-> n, den |-> d]

\* the number of distinct abscissae: the rank of the least-squares system
DistinctPoints(strain) == Cardinality({ strain[i] : i \in 1 .. Len(strain) })

\* the residual of the fitted polynomial vanishes when it interpolates
Interpolates(strain, degree) ==
    DistinctPoints(strain) = Len(strain) /\ Len(strain) <= degree + 1

NotComputed == [tag |-> "not_computed", num |-> 0, den |-> 0]

RSquared(strain, stress, degree) ==
    IF Dev(stress, stress) = 0 THEN Undefined
    ELSE IF degree = 0 THEN Fraction(0, 1)
    ELSE IF degree = 1 /\ Dev(strain, strain) # 0
    THEN Fraction(Dev(strain, stress) * Dev(strain, stress),
                  Dev(strain, strain) * Dev(stress, stress))
    ELSE IF Interpolates(strain, degree) THEN Fraction(1, 1)
    ELSE NotComputed

RECURSIVE Gcd(_, _)
Gcd(a, b) == IF b = 0 THEN a ELSE Gcd(b, a % b)

\* the rational n/d in lowest terms with a positive denominator
Reduced(n, d) ==
    LET g == Gcd(Abs(n), Abs(d))
        s == IF d < 0 THEN -1 ELSE 1
    IN  Fraction((s * n) \div g, Abs(d) \div g)

(***************************************************************************)
(* Polynomial.fit(strain, stress, degree) and p.coef.  fit() maps the      *)
(* domain [strain.min(), strain.max()] onto the window [-1, 1] and solves  *)
(* the least-squares problem in the mapped variable                        *)
(*     u = (2 x - (max + min)) / (max - min);                              *)
(* p.coef are the coefficients of the series in u, lowest power first.     *)
(* For the line a + b x fitted to the samples that is                      *)
(*     coef[0] = a + b (max + min) / 2,    coef[1] = b (max - min) / 2.    *)
(* With fewer distinct abscissae than coefficients the system is rank      *)
(* deficient: lstsq warns (RankWarning) and returns its minimum-norm       *)
(* solution, no exception is raised.  The values of the coefficients are   *)
(* computed for degrees 0 and 1 only.                                      *)
(***************************************************************************)
PolyCoefLine(strain, stress) ==
    LET n == Len(strain)
        lo == MinSeq(strain)
        hi == MaxSeq(strain)
        Dxx == Dev(strain, strain)
        Dxy == Dev(strain, stress)
    IN  << Reduced(2 * (SumSeq(stress) * Dxx - Dxy * SumSeq(strain))
                     + n * Dxy * (hi + lo),
                   2 * n * Dxx),
           Reduced(Dxy * (hi - lo), 2 * Dxx) >>

PolynomialFit(strain, stress, degree) ==
    IF DistinctPoints(strain) < degree + 1
    THEN [tag |-> "rank_deficient", coef |-> << >>]
    ELSE IF degree = 0
    THEN [tag |-> "exact", coef |-> << Reduced(SumSeq(stress), Len(stress)) >>]
    ELSE IF degree = 1
    THEN [tag |-> "exact", coef |-> PolyCoefLine(strain, stress)]
    ELSE [tag |-> "not_computed", coef |-> << >>]

\* lines 467-476: the fit, its r_squared and the coefficients stored
FitCurve(strain, stress, degree) ==
    [tag |-> "fitted",
     polynomial_coefficients |-> PolynomialFit(strain, stress, degree),
     r_squared |-> RSquared(strain, stress, degree)]

(***************************************************************************)
(* MechanicalDataProcessor.fit_polynomial_to_experiment                    *)
(* The result is the record, or None; skip names the place that returned   *)
(* None: "no_curve" and "too_few" are the two disjuncts of line 459,       *)
(* "exception" is the handler of line 523, "uncaught" an exception that    *)
(* leaves the function.                                                    *)
(***************************************************************************)
NoRecord(why) == [tag |-> "none", skip |-> why]

\* except Exception
\* (variant: the narrower tuple of extract_stress_strain_data)
FitCatchesNarrow(tag) == tag \in {"KeyError", "TypeError", "ValueError"}
FitCatches(tag) == TRUE

\* if strain is None or len(strain) < 10
\* (variant: the length of the cleaned curve)
TooFewOnCleaned(x, e) == Len(CleanPairs(e).strain) < MinFitPoints
TooFew(x, e) == Len(x.strain) < MinFitPoints

\* (variant: data_points counts the curve before trimming)
RecordOfUntrimmed(x, c) ==
    [tag |-> "record", skip |-> "",
     polynomial_coefficients |->
        FitCurve(x.strain, x.stress, c.polynomial_degree).polynomial_coefficients,
     r_squared |-> FitCurve(x.strain, x.stress, c.polynomial_degree).r_squared,
     data_points |-> x.trim_info.original_points,
     strain_range |-> RangeOf(x.strain),
     stress_range |-> RangeOf(x.stress),
     fracture_detected |-> x.trim_info.fracture_detected,
     max_stress |-> x.trim_info.max_stress,
     trim_info |-> x.trim_info]
RecordOf(x, c) ==
    [tag |-> "record", skip |-> "",
     polynomial_coefficients |->
        FitCurve(x.strain, x.stress, c.polynomial_degree).polynomial_coefficients,
     r_squared |-> FitCurve(x.strain, x.stress, c.polynomial_degree).r_squared,
     data_points |-> Len(x.strain),
     strain_range |-> RangeOf(x.strain),
     stress_range |-> RangeOf(x.stress),
     fracture_detected |-> x.trim_info.fracture_detected,
     max_stress |-> x.trim_info.max_stress,
     trim_info |-> x.trim_info]

FitPolynomialToExperiment(e, c) ==
    LET x == ExtractStressStrainData(e, c)
    IN  IF x.tag \notin {"ok", "none"}
        THEN IF FitCatches(x.tag) THEN NoRecord("exception") ELSE NoRecord("uncaught")
        ELSE IF x.tag = "none" THEN NoRecord("no_curve")
        ELSE IF TooFew(x, e) THEN NoRecord("too_few")
        ELSE RecordOf(x, c)

(***************************************************************************)
(* ConfigManager.load_config / _merge_configs: the saved file overrides    *)
(* the defaults key by key; nothing is validated.                          *)
(***************************************************************************)
MergeConfigs(default, saved) ==
    [k \in DOMAIN default |-> IF k \in DOMAIN saved THEN saved[k] ELSE default[k]]

\* what a config file on disk may hold (an absent file is the empty override)
ConfigFiles ==
    { [drop_threshold |-> 9],
      [drop_threshold |-> 5, min_points |-> 0],
      [stop_max_stress |-> TRUE],
      [drop_threshold |-> 5, min_points |-> 0, max_experiments |-> 1],
      [drop_threshold |-> 15, min_points |-> 0],
      [drop_threshold |-> 5, min_points |-> -1],
      [drop_threshold |-> 5, min_points |-> 0, polynomial_degree |-> 0] }

LoadConfig(saved) == [tag |-> "ok", config |-> MergeConfigs(DEFAULT_CONFIG, saved)]

(***************************************************************************)
(* Generated inputs                                                        *)
(***************************************************************************)
MinLen == DetectMargin
Lens == MinLen .. MaxLen
StressVals == {-1, 1, 3}
StrainShapes == {"up", "shifted", "down", "tie"}

\* three constant segments: head, plateau, tail
StressCurve(n, a, t, v1, v2, v3) ==
    Const(v1, a) \o Const(v2, n - a - t) \o Const(v3, t)

ExampleStrain == << 0, 1, 2, 3, 4, 5, 6, 7, 8, 9, 10 >>
ExampleStress == << 0, 10, 20, 30, 25, 5, 4, 3, 2, 1, 0 >>

StressCurves ==
    { StressCurve(n, a, t, v[1], v[2], v[3]) :
        n \in Lens, a \in 0 .. MaxHead, t \in 0 .. MaxTail,
        v \in StressVals \X StressVals \X StressVals }
    \cup {ExampleStress}

StrainOf(shape, n) ==
    [i \in 1 .. n |->
        CASE shape = "up" -> i - 1
          [] shape = "shifted" -> i - 3
          [] shape = "down" -> n - i
          [] OTHER -> IF i = 1 THEN -1 ELSE i - 1]

\* which samples are null: none, the first strain, the last stress
Holes(n) == { << {}, {} >>, << {0}, {} >>, << {}, {n - 1} >> }

Curves == { [strain |-> StrainOf(sh, Len(st)), stress |-> st] :
              sh \in StrainShapes, st \in StressCurves }

RawExperiments ==
    UNION { { RawExperiment("dict", cv.strain, cv.stress, h[1], h[2]) :
                h \in Holes(Len(cv.stress)) } : cv \in Curves }
    \cup { RawExperiment("not_dict", << >>, << >>, {}, {}),
           RawExperiment("values_null", << >>, << >>, {}, {}),
           RawExperiment("dict", << >>, << >>, {}, {}) }

\* a degree with as many coefficients as the longest curve has samples
\* (10, the largest the degree prompt accepts, for curves of up to 11)
HighDegree == MaxLen - 1

CurveConfigs ==
    { [DEFAULT_CONFIG EXCEPT !.drop_threshold = d, !.min_points = m] :
        d \in {0, 5, 10}, m \in 0 .. MaxMinPoints }
    \cup { [DEFAULT_CONFIG EXCEPT !.stop_max_stress = TRUE, !.min_points = m] :
        m \in 0 .. MaxMinPoints }
    \cup { [DEFAULT_CONFIG EXCEPT !.polynomial_degree = HighDegree] }

\* short curves for the fit alone
LineStrain == << 0, 1, 2, 3 >>
LineStress == << 0, 2, 4, 6 >>
FitCurves ==
    { [strain |-> StrainOf(sh, Len(LineStrain)), stress |-> st] :
        sh \in StrainShapes,
        st \in {LineStress} \cup { << v[1], v[2], v[3], v[1] >> :
                                     v \in StressVals \X StressVals \X StressVals } }

\* raw 'values' arrays of up to MaxRaw entries, of equal or different
\* lengths, with null at any set of indices
MaxRaw == 4
RawStrain == << 10, 11, 12, 13, 14 >>
RawStress == << 20, 21, 22, 23, 24 >>
CleanInputs ==
    { RawExperiment("dict", SubSeq(RawStrain, 1, n), SubSeq(RawStress, 1, m), a, b) :
        n \in 0 .. MaxRaw, m \in 0 .. MaxRaw,
        a \in SUBSET (0 .. MaxRaw - 1), b \in SUBSET (0 .. MaxRaw - 1) }

\* a small collection alphabet for the batch
BatchInputs ==
    { RawExperiment("dict", StrainOf("up", 11), StressCurve(11, 2, 0, 1, 3, 3), {}, {}),
      RawExperiment("dict", StrainOf("up", 11), StressCurve(11, 0, 0, 1, 1, 1), {}, {}),
      RawExperiment("dict", StrainOf("up", 11), StressCurve(11, 2, 2, 1, 3, -1), {}, {}),
      RawExperiment("dict", StrainOf("up", 11), StressCurve(11, 0, 1, 3, 3, -1), {}, {}),
      RawExperiment("dict", StrainOf("up", 10), StressCurve(10, 0, 0, 1, 1, 3), {0}, {}),
      RawExperiment("dict", StrainOf("down", 11), StressCurve(11, 1, 0, 3, 1, 1), {}, {}),
      RawExperiment("dict", << >>, << >>, {}, {}),
      RawExperiment("values_null", << >>, << >>, {}, {}),
      RawExperiment("not_dict", << >>, << >>, {}, {}) }

\* three experiments that give records, the third with a curve of its own
ThreeRecords ==
    LET usual == RawExperiment("dict", StrainOf("up", 11),
                               StressCurve(11, 2, 0, 1, 3, 3), {}, {})
        odd == RawExperiment("dict", StrainOf("up", 11),
                             StressCurve(11, 0, 1, 3, 3, -1), {}, {})
    IN  << usual, usual, odd >>

Collections ==
    UNION { [1 .. n -> BatchInputs] : n \in 0 .. MaxBatch } \cup { ThreeRecords }

(***************************************************************************)
(* State                                                                   *)
(***************************************************************************)
VARIABLES
    pc,         \* where main() is
    config,     \* the configuration in use
    data,       \* data['experiments'], in key order
    pos,        \* experiments visited by the loop of process_all_experiments
    processed,  \* its counter of records
    failed,     \* its counter of None results
    results,    \* its list of records
    writes,     \* how often save_results has written the record file
    call,       \* the method applied to arg, for the single-call specification
    arg,        \* its argument (a raw experiment)
    out         \* its return value

vars == << pc, config, data, pos, processed, failed, results, writes, call, arg, out >>

NoArg == RawExperiment("dict", << >>, << >>, {}, {})
NoOut == [tag |-> "none"]

(***************************************************************************)
(* main() of process_mechanical_data.py                                    *)
(***************************************************************************)
\* experiment_ids[:max_exp] when max_exp is truthy
Selected(d, c) ==
    IF c.max_experiments # 0 THEN Slice(d, 0, c.max_experiments) ELSE d

Init ==
    /\ pc = "start"
    /\ config = DEFAULT_CONFIG
    /\ data \in Collections
    /\ pos = 0 /\ processed = 0 /\ failed = 0
    /\ results = << >>
    /\ writes = 0
    /\ call = "idle" /\ arg = NoArg /\ out = NoOut

\* load_experiments_data: the file is read, or the call raises (the file is
\* missing, is not JSON, or has no 'experiments' key)
LoadOutcomes == { "ok", "raised" }

\* main() up to the loop: ConfigManager() merges the file, if any, over the
\* defaults, MechanicalDataProcessor(config) copies the values, the data is
\* loaded and process_all_experiments sets its counters; an exception of the
\* load is caught by main(), which then ends
Startup ==
    /\ pc = "start"
    /\ \E saved \in ConfigFiles, loaded \in LoadOutcomes :
         LET r == LoadConfig(saved)
         IN  /\ config' = r.config
             /\ pc' = IF r.tag # "ok" THEN "config_error"
                      ELSE IF loaded = "ok" THEN "loop" ELSE "load_error"
    /\ pos' = 0 /\ processed' = 0 /\ failed' = 0 /\ results' = << >>
    /\ UNCHANGED << data, writes, call, arg, out >>

\* one iteration of the loop of process_all_experiments (save_plots off)
\* (variant: a record equal to one already in the list is not added again)
ProcessExperimentOnce ==
    /\ pc = "loop"
    /\ pos < Len(Selected(data, config))
    /\ LET result == FitPolynomialToExperiment(At(Selected(data, config), pos), config)
       IN  /\ pc' = "loop"
           /\ pos' = pos + 1
           /\ IF result.tag = "record"
              THEN /\ results' = IF \E k \in 1 .. Len(results) : results[k] = result
                                 THEN results ELSE Append(results, result)
                   /\ processed' = processed + 1
                   /\ failed' = failed
              ELSE /\ failed' = failed + 1
                   /\ UNCHANGED << results, processed >>
    /\ UNCHANGED << config, data, writes, call, arg, out >>
ProcessExperiment ==
    /\ pc = "loop"
    /\ pos < Len(Selected(data, config))
    /\ LET result == FitPolynomialToExperiment(At(Selected(data, config), pos), config)
       IN  IF result.skip = "uncaught"
           THEN /\ pc' = "aborted"
                /\ UNCHANGED << pos, processed, failed, results >>
           ELSE /\ pc' = "loop"
                /\ pos' = pos + 1
                /\ IF result.tag = "record"
                   THEN /\ results' = Append(results, result)
                        /\ processed' = processed + 1
                        /\ failed' = failed
                   ELSE /\ failed' = failed + 1
                        /\ UNCHANGED << results, processed >>
    /\ UNCHANGED << config, data, writes, call, arg, out >>

\* the loop is exhausted: the summary is printed and results returned
ReturnResults ==
    /\ pc = "loop"
    /\ pos = Len(Selected(data, config))
    /\ pc' = "returned"
    /\ UNCHANGED << config, data, pos, processed, failed, results, writes, call, arg, out >>

\* processor.save_results(results, ...)
\* (variant: the file is rewritten while the loop is running)
SaveResultsInLoop ==
    /\ pc = "loop"
    /\ writes < MaxBatch
    /\ pc' = "loop"
    /\ writes' = writes + 1
    /\ UNCHANGED << config, data, pos, processed, failed, results, call, arg, out >>
SaveResults ==
    /\ pc = "returned"
    /\ pc' = "saved"
    /\ writes' = writes + 1
    /\ UNCHANGED << config, data, pos, processed, failed, results, call, arg, out >>

Next == Startup \/ ProcessExperiment \/ ReturnResults \/ SaveResults

Spec == Init /\ [][Next]_vars

(***************************************************************************)
(* The methods applied one at a time to generated inputs                   *)
(***************************************************************************)
InitCurve ==
    /\ pc = "start"
    /\ config \in CurveConfigs
    /\ data = << >>
    /\ pos = 0 /\ processed = 0 /\ failed = 0
    /\ results = << >>
    /\ writes = 0
    /\ call = "idle" /\ arg = NoArg /\ out = NoOut

CallDetect ==
    /\ call = "idle"
    /\ \E st \in StressCurves :
         /\ arg' = RawExperiment("dict", StrainOf("up", Len(st)), st, {}, {})
         /\ out' = DetectFracturePoint(StrainOf("up", Len(st)), st, config)
    /\ call' = "detect"
    /\ UNCHANGED << pc, config, data, pos, processed, failed, results, writes >>

CallTrim ==
    /\ call = "idle"
    /\ \E cv \in Curves :
         /\ arg' = RawExperiment("dict", cv.strain, cv.stress, {}, {})
         /\ out' = TrimCurveToFracture(cv.strain, cv.stress, config)
    /\ call' = "trim"
    /\ UNCHANGED << pc, config, data, pos, processed, failed, results, writes >>

CallFit ==
    /\ call = "idle"
    /\ \E e \in RawExperiments :
         /\ arg' = e
         /\ out' = FitPolynomialToExperiment(e, config)
    /\ call' = "fit"
    /\ UNCHANGED << pc, config, data, pos, processed, failed, results, writes >>

\* lines 467-476 alone, on a curve of any length
CallPolyFit ==
    /\ call = "idle"
    /\ \E cv \in FitCurves :
         /\ arg' = RawExperiment("dict", cv.strain, cv.stress, {}, {})
         /\ out' = FitCurve(cv.strain, cv.stress, config.polynomial_degree)
    /\ call' = "polyfit"
    /\ UNCHANGED << pc, config, data, pos, processed, failed, results, writes >>

\* lines 405-422 alone: the cleaned arrays handed to trim_curve_to_fracture
CallClean ==
    /\ call = "idle"
    /\ \E e \in { x \in CleanInputs :
                     /\ x.strainNull \subseteq Indices(x.strain)
                     /\ x.stressNull \subseteq Indices(x.stress) } :
         /\ arg' = e
         /\ out' = [tag |-> "clean", strain |-> CleanPairs(e).strain,
                    stress |-> CleanPairs(e).stress]
    /\ call' = "clean"
    /\ UNCHANGED << pc, config, data, pos, processed, failed, results, writes >>

NextCurve == CallDetect \/ CallTrim \/ CallFit \/ CallPolyFit \/ CallClean

SpecCurve == InitCurve /\ [][NextCurve]_vars

(***************************************************************************)
(* analyse_outliers.py                                                     *)
(*                                                                         *)
(* Numbers are exact rationals, Fraction(num, den) in lowest terms; nan    *)
(* (a missing value in pandas) is Undefined.  A standard deviation is      *)
(* carried as its square, the sample variance.                             *)
(***************************************************************************)
NaN == Undefined
IsNaN(f) == f.tag = "nan"

FracAdd(f, g) == Reduced(f.num * g.den + g.num * f.den, f.den * g.den)
FracEq(f, g) == f.num * g.den = g.num * f.den

\* an optional string: dict.get() of a key that may be absent
None == [some |-> FALSE, s |-> ""]
Some(s) == [some |-> TRUE, s |-> s]
Truthy(o) == o.some /\ o.s # ""

\* the JSON value of a trait's 'measurement'
Null == [kind |-> "null", v |-> 0]
Number(v) == [kind |-> "number", v |-> v]
\* a string that float() parses
Numeral(v) == [kind |-> "numeral", v |-> v]
\* a string that float() rejects with ValueError
Text == [kind |-> "text", v |-> 0]
\* a list or an object, which float() rejects with TypeError
Composite == [kind |-> "composite", v |-> 0]

Trait(type, measurement) == [type |-> type, measurement |-> measurement]

\* try: float(measurement) except (ValueError, TypeError): np.nan
ToFloat(measurement) ==
    IF measurement.kind \in {"number", "numeral"}
    THEN Fraction(measurement.v, 1)
    ELSE NaN

\* lines 139-153: traits_dict, trait type -> list of measurements, in
\* insertion order
RECURSIVE CollectTraits(_, _)
CollectTraits(traits, traits_dict) ==
    IF traits = << >> THEN traits_dict
    ELSE LET trait == Head(traits)
             trait_type == trait.type
             numeric_val == ToFloat(trait.measurement)
             known == \E i \in 1 .. Len(traits_dict) :
                         traits_dict[i].type = trait_type.s
         IN  CollectTraits(Tail(traits),
               IF ~(Truthy(trait_type) /\ trait.measurement.kind # "null")
               THEN traits_dict
               ELSE IF known
               THEN [i \in 1 .. Len(traits_dict) |->
                       IF traits_dict[i].type = trait_type.s
                       THEN [traits_dict[i] EXCEPT
                               !.measurements = Append(@, numeric_val)]
                       ELSE traits_dict[i]]
               ELSE Append(traits_dict,
                           [type |-> trait_type.s,
                            measurements |-> << numeric_val >>]))

\* [m for m in measurements if not np.isnan(m)]
\* (variant: the first valid measurement only)
ValidMeasurementsFirst(measurements) ==
    LET valid == SelectSeq(measurements, LAMBDA m : ~IsNaN(m))
    IN  IF valid = << >> THEN valid ELSE << Head(valid) >>
ValidMeasurements(measurements) == SelectSeq(measurements, LAMBDA m : ~IsNaN(m))

RECURSIVE FracSum(_)
FracSum(s) == IF s = << >> THEN Fraction(0, 1) ELSE FracAdd(Head(s), FracSum(Tail(s)))

\* np.mean of a non-empty list
Mean(s) == Reduced(FracSum(s).num, FracSum(s).den * Len(s))

\* lines 156-166: one (column, value) per collected trait type
AggregateTraits(traits) ==
    LET traits_dict == CollectTraits(traits, << >>)
    IN  [i \in 1 .. Len(traits_dict) |->
           LET valid_measurements == ValidMeasurements(traits_dict[i].measurements)
           IN  [column |-> "trait_" \o traits_dict[i].type,
                value |-> IF valid_measurements # << >>
                          THEN Mean(valid_measurements)
                          ELSE NaN]]

(***************************************************************************)
(* OutlierAnalyzer.calculate_statistics_for_group                          *)
(* A group's column is the sequence of its rows' (experiment_id, value).   *)
(***************************************************************************)
FracSub(f, g) == Reduced(f.num * g.den - g.num * f.den, f.den * g.den)
FracLess(f, g) == f.num * g.den < g.num * f.den

\* group_df[column].dropna()
DropNa(column) == SelectSeq(column, LAMBDA row : ~IsNaN(row.value))

RECURSIVE CommonDen(_)
CommonDen(values) ==
    IF values = << >> THEN 1
    ELSE LET d == Head(values).value.den
             c == CommonDen(Tail(values))
         IN  (d * c) \div Gcd(d, c)

\* values.min() / values.max()
FracMin(values) ==
    (CHOOSE r \in { values[i] : i \in 1 .. Len(values) } :
        \A i \in 1 .. Len(values) : ~FracLess(values[i].value, r.value)).value
FracMax(values) ==
    (CHOOSE r \in { values[i] : i \in 1 .. Len(values) } :
        \A i \in 1 .. Len(values) : ~FracLess(r.value, values[i].value)).value

\* the k-th smallest of the values, k from 1
KthSmallest(values, k) ==
    (CHOOSE r \in { values[i] : i \in 1 .. Len(values) } :
        /\ Cardinality({ i \in 1 .. Len(values) : FracLess(values[i].value, r.value) }) < k
        /\ Cardinality({ i \in 1 .. Len(values) : ~FracLess(r.value, values[i].value) }) >= k
    ).value

\* values.median()
Median(values) ==
    LET n == Len(values)
    IN  IF n % 2 = 1 THEN KthSmallest(values, (n + 1) \div 2)
        ELSE LET s == FracAdd(KthSmallest(values, n \div 2),
                              KthSmallest(values, n \div 2 + 1))
             IN  Reduced(s.num, 2 * s.den)

NoStats == [tag |-> "none"]

\* values.std(): pandas divides the sum of squares by count - 1
\* (variant: the population variance, which divides by count)
VarianceOfPopulation(x, den) ==
    IF Len(x) < 2 THEN NaN
    ELSE Reduced(Dev(x, x), Len(x) * Len(x) * den * den)
VarianceOf(x, den) ==
    IF Len(x) < 2 THEN NaN
    ELSE Reduced(Dev(x, x), Len(x) * (Len(x) - 1) * den * den)

CalculateStatisticsForGroup(column) ==
    LET values == DropNa(column)
        den == CommonDen(values)
        x == [i \in 1 .. Len(values) |->
                values[i].value.num * (den \div values[i].value.den)]
    IN  IF Len(values) = 0 THEN NoStats
        ELSE [tag |-> "stats",
              count |-> Len(values),
              mean |-> Reduced(SumSeq(x), Len(x) * den),
              variance |-> VarianceOf(x, den),
              min |-> FracMin(values),
              max |-> FracMax(values),
              median |-> Median(values)]

(***************************************************************************)
(* OutlierAnalyzer.find_outliers_in_group                                  *)
(* The thresholds mean -/+ k*std are compared through squares: with        *)
(* d = value - mean,  value > mean + k*std  iff  d > 0 and d*d > k*k*var.  *)
(* A nan std (count 1) makes both comparisons false.                       *)
(***************************************************************************)
\* f / g for g # 0; common factors are divided out before the products
FracDiv(f, g) ==
    LET a == Gcd(Abs(f.num), Abs(g.num))
        b == Gcd(f.den, g.den)
    IN  Reduced((f.num \div a) * (g.den \div b), (f.den \div b) * (g.num \div a))

FracSquare(f) == Fraction(f.num * f.num, f.den * f.den)

BeyondBand(d, variance, sigma_level) ==
    IF variance.num = 0 THEN d.num # 0
    ELSE FracLess(Fraction(sigma_level * sigma_level, 1),
                  FracDiv(FracSquare(d), variance))

\* group_df[column] > high_threshold
\* (variant: a value on the threshold counts as beyond it)
AboveHighInclusive(value, stats, sigma_level) ==
    /\ ~IsNaN(stats.variance)
    /\ LET d == FracSub(value, stats.mean)
       IN  /\ d.num >= 0
           /\ d.num * d.num * stats.variance.den
                 >= sigma_level * sigma_level * stats.variance.num * d.den * d.den
AboveHigh(value, stats, sigma_level) ==
    /\ ~IsNaN(stats.variance)
    /\ LET d == FracSub(value, stats.mean)
       IN  d.num > 0 /\ BeyondBand(d, stats.variance, sigma_level)

\* group_df[column] < low_threshold
\* (variant: a value on the threshold counts as below it)
BelowLowInclusive(value, stats, sigma_level) ==
    /\ ~IsNaN(stats.variance)
    /\ LET d == FracSub(value, stats.mean)
       IN  /\ d.num <= 0
           /\ d.num * d.num * stats.variance.den
                 >= sigma_level * sigma_level * stats.variance.num * d.den * d.den
BelowLow(value, stats, sigma_level) ==
    /\ ~IsNaN(stats.variance)
    /\ LET d == FracSub(value, stats.mean)
       IN  d.num < 0 /\ BeyondBand(d, stats.variance, sigma_level)

\* (value - mean) / std, as its sign and its square
Deviation(value, stats) ==
    LET d == FracSub(value, stats.mean)
    IN  [sign |-> IF d.num > 0 THEN 1 ELSE -1,
         square |-> IF stats.variance.num = 0 THEN NaN
                    ELSE FracDiv(FracSquare(d), stats.variance)]

\* DataFrame.sort_values(by, ascending=False).  The kind of sort is left at
\* its default, 'quicksort', which numpy documents as not stable: the order
\* of rows of equal key is not determined by the program.  The result is any
\* arrangement of the rows in which the key never increases.  smaller[a, b]
\* tells, for rows a and b, whether the key of a is below the key of b.
SortValuesDescending(rows, smaller) ==
    LET n == Len(rows)
        orders == { p \in Permutations(1 .. n) :
                      \A i \in 1 .. n - 1 : ~smaller[rows[p[i]], rows[p[i + 1]]] }
    IN  { [i \in 1 .. n |-> rows[p[i]]] : p \in orders }

\* the sequences that take one element of each set of a sequence of sets
RECURSIVE Product(_)
Product(sets) ==
    IF sets = << >> THEN { << >> }
    ELSE { << h >> \o rest : h \in Head(sets), rest \in Product(Tail(sets)) }

\* abs_deviation of a before that of b
AbsDeviationLess(a, b) == FracLess(a.deviation.square, b.deviation.square)

\* the frames find_outliers_in_group can return (one per order of the ties)
FindOutliersInGroup(column, stats, sigma_level) ==
    IF stats.tag = "none" THEN { << >> }
    ELSE LET outliers ==
               SelectSeq(column, LAMBDA row :
                  /\ ~IsNaN(row.value)
                  /\ (BelowLow(row.value, stats, sigma_level)
                      \/ AboveHigh(row.value, stats, sigma_level)))
             rows == [i \in 1 .. Len(outliers) |->
                        [experiment_id |-> outliers[i].experiment_id,
                         value |-> outliers[i].value,
                         deviation |-> Deviation(outliers[i].value, stats)]]
             all == { rows[i] : i \in 1 .. Len(rows) }
         IN  SortValuesDescending(rows,
                [a \in all, b \in all |-> AbsDeviationLess(a, b)])

SigmaLevels == 1 .. 3

(***************************************************************************)
(* OutlierAnalyzer.prepare_dataframe                                       *)
(* An experiment of the input file; its experiment_id is its position in   *)
(* data['experiments'].                                                    *)
(***************************************************************************)
Experiment(sample_name, family, genus, species, subsampletype, r_squared, polynomial_coefficients, associatedTraits) ==
    [sample_name |-> sample_name, family |-> family, genus |-> genus,
     species |-> species, subsampletype |-> subsampletype,
     r_squared |-> r_squared,
     polynomial_coefficients |-> polynomial_coefficients,
     associatedTraits |-> associatedTraits]

\* genus + ' ' + species if genus and species else ''
NameOf(exp_data) ==
    IF Truthy(exp_data.genus) /\ Truthy(exp_data.species)
    THEN exp_data.genus.s \o " " \o exp_data.species.s
    ELSE ""

Digits == << "0", "1", "2", "3", "4", "5", "6", "7", "8", "9" >>
\* f'coeff_{i}'
CoeffColumn(i) == "coeff_" \o Digits[i + 1]

\* the numeric keys of one record, in the order they are set
RecordCells(exp_data) ==
    [i \in 1 .. Len(exp_data.polynomial_coefficients) |->
        [column |-> CoeffColumn(i - 1), value |-> exp_data.polynomial_coefficients[i]]]
    \o << [column |-> "r_squared", value |-> exp_data.r_squared] >>
    \o AggregateTraits(exp_data.associatedTraits)

RECURSIVE Flatten(_)
Flatten(ss) == IF ss = << >> THEN << >> ELSE Head(ss) \o Flatten(Tail(ss))

\* the elements of a sequence in the order of their first occurrence
RECURSIVE Distinct(_, _)
Distinct(s, seen) ==
    IF s = << >> THEN seen
    ELSE Distinct(Tail(s),
                  IF \E i \in 1 .. Len(seen) : seen[i] = Head(s)
                  THEN seen ELSE Append(seen, Head(s)))

CellOf(cells, column) ==
    IF \E i \in 1 .. Len(cells) : cells[i].column = column
    THEN (CHOOSE c \in { cells[i] : i \in 1 .. Len(cells) } : c.column = column).value
    ELSE NaN

\* pd.DataFrame(records): a key that a record lacks reads as nan
PrepareDataframe(file) ==
    LET experiments == file.experiments
        cells == [i \in 1 .. Len(experiments) |-> RecordCells(experiments[i])]
        columns == Distinct(Flatten([i \in 1 .. Len(cells) |->
                                       [j \in 1 .. Len(cells[i]) |-> cells[i][j].column]]),
                            << >>)
    IN  [columns |-> columns,
         rows |->
            [i \in 1 .. Len(experiments) |->
               [experiment_id |-> i,
                sample_name |-> experiments[i].sample_name,
                family |-> experiments[i].family,
                name |-> NameOf(experiments[i]),
                subsampletype |-> experiments[i].subsampletype,
                cells |-> [j \in 1 .. Len(columns) |->
                             [column |-> columns[j],
                              value |-> CellOf(cells[i], columns[j])]]]]]

(***************************************************************************)
(* OutlierAnalyzer.analyze_all_traits                                      *)
(***************************************************************************)
HasColumn(df, column) == \E j \in 1 .. Len(df.columns) : df.columns[j] = column

IsTraitColumn(column) == Len(column) >= 6 /\ SubSeq(column, 1, 6) = "trait_"

\* r_squared, coeff_0 .. coeff_degree, then the trait_ columns, each where
\* the frame has the column
TraitsToAnalyze(df, poly_degree) ==
    (IF HasColumn(df, "r_squared") THEN << "r_squared" >> ELSE << >>)
    \o SelectSeq([i \in 1 .. poly_degree + 1 |-> CoeffColumn(i - 1)],
                 LAMBDA c : HasColumn(df, c))
    \o SelectSeq(df.columns, IsTraitColumn)

\* the order of Python strings, on the strings the generated files use
StringsInOrder ==
    << "", "Araneidae", "Araneus diadematus", "dragline", "g s", "g s_t", "nan",
       "t_u", "u" >>
StringRank(s) == CHOOSE i \in 1 .. Len(StringsInOrder) : StringsInOrder[i] = s
\* a missing component sorts after every string
ComponentRank(o) == IF o.some THEN StringRank(o.s) ELSE Len(StringsInOrder) + 1

KeyOf(row) == << row.family, Some(row.name), row.subsampletype >>

KeyLess(a, b) ==
    \/ ComponentRank(a[1]) < ComponentRank(b[1])
    \/ /\ a[1] = b[1]
       /\ \/ ComponentRank(a[2]) < ComponentRank(b[2])
          \/ a[2] = b[2] /\ ComponentRank(a[3]) < ComponentRank(b[3])

\* groupby(['family', 'name', 'subsampletype'], dropna=False): the keys in
\* sorted order
RECURSIVE SortKeys(_)
SortKeys(keys) ==
    IF keys = {} THEN << >>
    ELSE LET least == CHOOSE k \in keys : \A other \in keys \ {k} : KeyLess(k, other)
         IN  << least >> \o SortKeys(keys \ {least})

GroupKeys(df) == SortKeys({ KeyOf(df.rows[i]) : i \in 1 .. Len(df.rows) })

GroupOf(df, key) == SelectSeq(df.rows, LAMBDA row : KeyOf(row) = key)

\* str() of a group key component: nan for a missing one
Str(o) == IF o.some THEN o.s ELSE "nan"
\* f"{family}_{name}_{subsampletype}"
GroupKeyString(key) == Str(key[1]) \o "_" \o Str(key[2]) \o "_" \o Str(key[3])

ColumnOfGroup(group_df, trait) ==
    [i \in 1 .. Len(group_df) |->
        [experiment_id |-> group_df[i].experiment_id,
         value |-> CellOf(group_df[i].cells, trait)]]

\* the entries of results[group_key]['traits'], in the order of the traits:
\* the values the dictionary can take
TraitAnalyses(group_df, traits_to_analyze) ==
    LET analyses ==
          [t \in 1 .. Len(traits_to_analyze) |->
             LET column == ColumnOfGroup(group_df, traits_to_analyze[t])
                 stats == CalculateStatisticsForGroup(column)
             IN  { [trait |-> traits_to_analyze[t],
                    statistics |-> stats,
                    outliers |-> o] :
                   o \in Product([k \in SigmaLevels |->
                                    FindOutliersInGroup(column, stats, k)]) }]
    IN  { SelectSeq(a, LAMBDA x :
             ~(x.statistics.tag = "none" \/ x.statistics.count < 2)) :
          a \in Product(analyses) }

\* results[group_key] = {...}: a key already present keeps its place and
\* takes the new value
Assign(all_results, entry) ==
    IF \E i \in 1 .. Len(all_results) : all_results[i].group_key = entry.group_key
    THEN [i \in 1 .. Len(all_results) |->
            IF all_results[i].group_key = entry.group_key THEN entry ELSE all_results[i]]
    ELSE Append(all_results, entry)

\* if len(group_df) < 2: continue
\* (variant: a group of one is analysed)
TooSmallNever(group_df) == Len(group_df) < 1
TooSmall(group_df) == Len(group_df) < 2

RECURSIVE AnalyzeGroups(_, _, _, _)
AnalyzeGroups(df, keys, traits_to_analyze, all_results) ==
    IF keys = << >> THEN { all_results }
    ELSE LET group_df == GroupOf(df, Head(keys))
         IN  IF TooSmall(group_df)
             THEN AnalyzeGroups(df, Tail(keys), traits_to_analyze, all_results)
             ELSE UNION {
                    AnalyzeGroups(df, Tail(keys), traits_to_analyze,
                      Assign(all_results,
                        [group_key |-> GroupKeyString(Head(keys)),
                         family |-> Head(keys)[1],
                         name |-> Head(keys)[2].s,
                         subsampletype |-> Head(keys)[3],
                         sample_count |-> Len(group_df),
                         traits |-> traits])) :
                    traits \in TraitAnalyses(group_df, traits_to_analyze) }

AnalyzeAllTraits(df, poly_degree) ==
    AnalyzeGroups(df, GroupKeys(df), TraitsToAnalyze(df, poly_degree), << >>)

(***************************************************************************)
(* OutlierAnalyzer.identify_outlier_experiments                            *)
(***************************************************************************)
\* the (trait, experiment) pairs of one group at one level, in the order the
\* loops visit them
OutlierPairs(group_data, sigma_level) ==
    Flatten([t \in 1 .. Len(group_data.traits) |->
               [j \in 1 .. Len(group_data.traits[t].outliers[sigma_level]) |->
                  [trait |-> group_data.traits[t].trait,
                   experiment_id |->
                      group_data.traits[t].outliers[sigma_level][j].experiment_id]]])

\* the threshold is carried in hundredths: 0.3 is 30
ThresholdScale == 100

\* outlier_percentage >= self.outlier_trait_threshold
\* (variant: the count itself is compared with the threshold)
ReachesThresholdByCount(count, total_traits, outlier_trait_threshold) ==
    count * ThresholdScale >= outlier_trait_threshold
ReachesThreshold(count, total_traits, outlier_trait_threshold) ==
    count * ThresholdScale >= outlier_trait_threshold * total_traits

\* the entries one group contributes, in the order of experiment_outlier_count
\* (variant: one entry for each listing of an experiment under a trait)
GroupOutlierExperimentsPerListing(group_data, sigma_level, outlier_trait_threshold) ==
    LET total_traits == Len(group_data.traits)
        pairs == OutlierPairs(group_data, sigma_level)
        entries ==
          [e \in 1 .. Len(pairs) |->
             [experiment_id |-> pairs[e].experiment_id,
              family |-> group_data.family,
              name |-> group_data.name,
              subsampletype |-> group_data.subsampletype,
              outlier_traits |-> 1,
              total_traits |-> total_traits,
              sigma_level |-> sigma_level,
              outlier_trait_list |-> << pairs[e].trait >>]]
    IN  IF total_traits = 0 THEN << >>
        ELSE SelectSeq(entries, LAMBDA x :
               ReachesThreshold(x.outlier_traits, x.total_traits,
                                outlier_trait_threshold))
GroupOutlierExperiments(group_data, sigma_level, outlier_trait_threshold) ==
    LET total_traits == Len(group_data.traits)
        pairs == OutlierPairs(group_data, sigma_level)
        ids == Distinct([j \in 1 .. Len(pairs) |-> pairs[j].experiment_id], << >>)
        entries ==
          [e \in 1 .. Len(ids) |->
             LET mine == SelectSeq(pairs, LAMBDA p : p.experiment_id = ids[e])
             IN  [experiment_id |-> ids[e],
                  family |-> group_data.family,
                  name |-> group_data.name,
                  subsampletype |-> group_data.subsampletype,
                  outlier_traits |-> Len(mine),
                  total_traits |-> total_traits,
                  sigma_level |-> sigma_level,
                  outlier_trait_list |-> [j \in 1 .. Len(mine) |-> mine[j].trait]]]
    IN  IF total_traits = 0 THEN << >>
        ELSE SelectSeq(entries, LAMBDA x :
               ReachesThreshold(x.outlier_traits, x.total_traits,
                                outlier_trait_threshold))

\* outlier_percentage of a before that of b
PercentageLess(a, b) ==
    a.outlier_traits * b.total_traits < b.outlier_traits * a.total_traits

\* sort_values('outlier_percentage', ascending=False): the frames that
\* identify_outlier_experiments can return
IdentifyOutlierExperiments(all_results, sigma_level, outlier_trait_threshold) ==
    LET rows == Flatten([g \in 1 .. Len(all_results) |->
                           GroupOutlierExperiments(all_results[g], sigma_level,
                                                   outlier_trait_threshold)])
        all == { rows[i] : i \in 1 .. Len(rows) }
    IN  SortValuesDescending(rows,
           [a \in all, b \in all |-> PercentageLess(a, b)])

(***************************************************************************)
(* OutlierAnalyzer.run_analysis                                            *)
(* The listing of the flagged experiments slices row['sample_name'],       *)
(* which raises TypeError for an experiment without a sample name; the     *)
(* exception leaves run_analysis before either file is written.  A file    *)
(* without experiments gives a frame without columns, and groupby raises   *)
(* KeyError.                                                               *)
(***************************************************************************)
RunAnalysisWith(file, experiments_df, all_results, outlier_exps) ==
    LET listed == \A j \in 1 .. Len(outlier_exps) :
                     file.experiments[outlier_exps[j].experiment_id].sample_name.some
    IN  [tag |-> IF file.experiments = << >> THEN "KeyError"
                 ELSE IF listed THEN "ok" ELSE "TypeError",
         experiments_df |-> experiments_df,
         results |-> all_results,
         outlier_exps |-> outlier_exps,
         experiments_file_writes |->
            IF listed /\ Len(outlier_exps) > 0 THEN 1 ELSE 0,
         analysis_file_writes |->
            IF listed /\ file.experiments # << >> THEN 1 ELSE 0]

\* the outcomes run_analysis can have on one file
RunAnalysisOf(file, c) ==
    LET experiments_df == PrepareDataframe(file)
    IN  UNION {
          { RunAnalysisWith(file, experiments_df, all_results, outlier_exps) :
              outlier_exps \in IdentifyOutlierExperiments(all_results, c.sigma_level,
                                                          c.outlier_trait_threshold) } :
          all_results \in AnalyzeAllTraits(experiments_df, file.polynomial_degree) }

(***************************************************************************)
(* Generated inputs of the analysis                                        *)
(***************************************************************************)
MaxTraits == 3

TraitAlphabet ==
    { Trait(Some("diameter"), m) :
        m \in { Null, Number(1), Number(2), Numeral(4), Text, Composite } }
    \cup { Trait(Some("toughness"), m) : m \in { Number(1), Text } }
    \cup { Trait(None, Number(1)) }

RECURSIVE SeqsUpTo(_, _)
SeqsUpTo(S, n) ==
    IF n = 0 THEN { << >> }
    ELSE SeqsUpTo(S, n - 1)
         \cup { Append(s, x) : s \in { t \in SeqsUpTo(S, n - 1) : Len(t) = n - 1 },
                               x \in S }

TraitLists == SeqsUpTo(TraitAlphabet, MaxTraits)

MaxGroup == 4

CellValues ==
    { NaN, Fraction(-1, 1), Fraction(0, 1), Fraction(1, 2), Fraction(1, 1) }

ColumnOf(values) ==
    [i \in 1 .. Len(values) |-> [experiment_id |-> i, value |-> values[i]]]

\* groups of up to MaxGroup rows; a group (mean 2, std 2) with a value on the
\* edge of the band and one beyond it; two groups large enough for one value
\* to lie beyond two and beyond three standard deviations; a group (mean 5/6,
\* std^2 141/34) with one value beyond one, one beyond two and one beyond
\* three standard deviations
Columns ==
    { ColumnOf(v) : v \in SeqsUpTo(CellValues, MaxGroup) \ { << >> } }
    \cup { ColumnOf(<< Fraction(0, 1), Fraction(1, 1), Fraction(1, 1),
                       Fraction(3, 1), Fraction(5, 1) >>),
           ColumnOf(Const(Fraction(0, 1), 5) \o << Fraction(1, 1) >>),
           ColumnOf(Const(Fraction(0, 1), 10) \o << Fraction(1, 1) >>),
           ColumnOf(Const(Fraction(0, 1), 15)
                    \o << Fraction(3, 1), Fraction(5, 1), Fraction(7, 1) >>) }

MaxExps == 3

\* (family, genus, species, subsampletype)
Complete == << Some("Araneidae"), Some("Araneus"), Some("diadematus"), Some("dragline") >>
NoFamily == << None, Some("Araneus"), Some("diadematus"), Some("dragline") >>
\* the name is then ''
NoSpecies == << Some("Araneidae"), Some("Araneus"), None, Some("dragline") >>
NoSubsampleType == << Some("Araneidae"), Some("Araneus"), Some("diadematus"), None >>

\* (sample_name, r_squared, polynomial_coefficients, associatedTraits)
Usual == << Some("s"), Fraction(1, 1), << Fraction(0, 1), Fraction(0, 1) >>,
            << Trait(Some("diameter"), Number(1)) >> >>
Unnamed == << None, Fraction(0, 1), << Fraction(0, 1), Fraction(0, 1) >>, << >> >>
Unfitted == << Some("s"), NaN, << Fraction(0, 1), Fraction(1, 1) >>,
               << Trait(Some("diameter"), Text) >> >>

ExperimentOf(taxon, m) ==
    Experiment(m[1], taxon[1], taxon[2], taxon[3], taxon[4], m[2], m[3], m[4])

File(experiments) == [polynomial_degree |-> 1, experiments |-> experiments]

\* three experiments of one group with ten analysed columns, the third an
\* outlier at level 1 in r_squared, coeff_1 and trait_a
TenTraitTypes == << "a", "b", "c", "d", "e", "f", "g" >>
TenTraitFile ==
    LET taxon == Complete
        traits(first) == [i \in 1 .. Len(TenTraitTypes) |->
                            Trait(Some(TenTraitTypes[i]),
                                  Number(IF i = 1 THEN first ELSE 1))]
        usual == ExperimentOf(taxon, << Some("s"), Fraction(1, 1),
                                        << Fraction(0, 1), Fraction(0, 1) >>,
                                        traits(1) >>)
        odd == ExperimentOf(taxon, << Some("s"), Fraction(0, 1),
                                      << Fraction(0, 1), Fraction(1, 1) >>,
                                      traits(2) >>)
    IN  File(<< usual, usual, odd >>)

\* six experiments of one group, the last beyond two standard deviations in
\* coeff_1
SixFile ==
    LET taxon == Complete
        usual == ExperimentOf(taxon, << Some("s"), Fraction(1, 1),
                                        << Fraction(0, 1), Fraction(0, 1) >>, << >> >>)
        odd == ExperimentOf(taxon, << Some("s"), Fraction(1, 1),
                                      << Fraction(0, 1), Fraction(1, 1) >>, << >> >>)
    IN  File(Const(usual, 5) \o << odd >>)

\* two groups of two, both without family, whose keys differ and are spelt
\* alike: nan_g s_t_u
UnderscoreFile ==
    LET m == << Some("s"), Fraction(1, 1), << Fraction(0, 1), Fraction(0, 1) >>,
                << >> >>
        one == ExperimentOf(<< None, Some("g"), Some("s_t"), Some("u") >>, m)
        other == ExperimentOf(<< None, Some("g"), Some("s"), Some("t_u") >>, m)
    IN  File(<< one, other, one, other >>)

\* a group without family and a group whose family is spelt "nan"
NanFile ==
    LET m == << Some("s"), Fraction(1, 1), << Fraction(0, 1), Fraction(0, 1) >>,
                << >> >>
        one == ExperimentOf(NoFamily, m)
        other == ExperimentOf(<< Some("nan"), Some("Araneus"), Some("diadematus"),
                                 Some("dragline") >>, m)
    IN  File(<< one, other, one, other, other >>)

\* four experiments of one group with four analysed columns: the first lies
\* beyond one standard deviation in r_squared, the last in coeff_1 and in
\* trait_diameter
TwoFlaggedFile ==
    LET member(r_squared, slope, diameter) ==
           ExperimentOf(Complete, << Some("s"), Fraction(r_squared, 1),
                                     << Fraction(0, 1), Fraction(slope, 1) >>,
                                     << Trait(Some("diameter"), Number(diameter)) >> >>)
    IN  File(<< member(0, 0, 1), member(1, 0, 1), member(1, 0, 1), member(1, 1, 2) >>)

ExperimentAlphabet ==
    { ExperimentOf(t, m) : t \in { Complete, NoFamily },
                           m \in { Usual, Unnamed, Unfitted } }
    \cup { ExperimentOf(t, Usual) : t \in { NoSpecies, NoSubsampleType } }

Files ==
    { File(s) : s \in SeqsUpTo(ExperimentAlphabet, MaxExps) }
    \cup { TenTraitFile, SixFile, UnderscoreFile, NanFile, TwoFlaggedFile }

\* the configuration of the analysis
ANALYSIS_DEFAULT_CONFIG == [outlier_trait_threshold |-> 30, sigma_level |-> 2]
AnalysisConfigs ==
    { ANALYSIS_DEFAULT_CONFIG,
      [outlier_trait_threshold |-> 0, sigma_level |-> 1],
      [outlier_trait_threshold |-> 30, sigma_level |-> 1],
      [outlier_trait_threshold |-> 31, sigma_level |-> 1] }

(***************************************************************************)
(* The analysis: its parts applied to generated inputs                     *)
(***************************************************************************)
InitOutlier ==
    /\ pc = "start"
    /\ config \in AnalysisConfigs
    /\ data = << >>
    /\ pos = 0 /\ processed = 0 /\ failed = 0
    /\ results = << >>
    /\ writes = 0
    /\ call = "idle" /\ arg = << >> /\ out = NoOut

\* the trait loop of prepare_dataframe on one experiment's associatedTraits
CallAggregateTraits ==
    /\ call = "idle"
    /\ \E traits \in TraitLists :
         /\ arg' = traits
         /\ out' = AggregateTraits(traits)
    /\ call' = "aggregate"
    /\ UNCHANGED << pc, config, data, pos, processed, failed, results, writes >>

\* calculate_statistics_for_group and find_outliers_in_group on one column
\* of one group, at the three levels
CallStatistics ==
    /\ call = "idle"
    /\ \E column \in Columns :
         LET stats == CalculateStatisticsForGroup(column)
         IN  \E outliers \in Product([k \in SigmaLevels |->
                                         FindOutliersInGroup(column, stats, k)]) :
                /\ arg' = column
                /\ out' = [statistics |-> stats, outliers |-> outliers]
    /\ call' = "statistics"
    /\ UNCHANGED << pc, config, data, pos, processed, failed, results, writes >>

\* run_analysis on one input file
RunAnalysis ==
    /\ call = "idle"
    /\ \E file \in Files :
         \E outcome \in RunAnalysisOf(file, config) :
            /\ arg' = file
            /\ out' = outcome
    /\ call' = "run_analysis"
    /\ UNCHANGED << pc, config, data, pos, processed, failed, results, writes >>

NextOutlier == CallAggregateTraits \/ CallStatistics \/ RunAnalysis

SpecOutlier == InitOutlier /\ [][NextOutlier]_vars

(***************************************************************************)
(* The pipeline: process_mechanical_data.py writes the record file and     *)
(* analyse_outliers.py reads it.  The analysis goes in steps: run_analysis *)
(* up to the listing of the flagged experiments, the file of flagged       *)
(* experiments, the report.  out holds what run_analysis has computed and  *)
(* how often it has written each of its two files.                         *)
(***************************************************************************)
\* a number of a record as the JSON file carries it
AsNumber(f) == IF f.tag = "num" THEN Reduced(f.num, f.den) ELSE NaN

\* save_results and load_data: the record file.  The generated experiments
\* have no metadata and no sampleChain: sample_name is 'Unknown' and the
\* keys of the taxonomy are absent.
AnalysisFileOf(records, c) ==
    [polynomial_degree |-> c.polynomial_degree,
     experiments |->
        [i \in 1 .. Len(records) |->
           Experiment(Some("Unknown"), None, None, None, None,
                      AsNumber(records[i].r_squared),
                      records[i].polynomial_coefficients.coef,
                      << >>)]]

\* run_analysis, lines 458-474: an exception leaves it
AnalyzeRecords ==
    /\ pc = "saved"
    /\ \E c \in AnalysisConfigs :
         \E outcome \in RunAnalysisOf(AnalysisFileOf(results, config), c) :
            /\ arg' = AnalysisFileOf(results, config)
            /\ out' = [outcome EXCEPT !.experiments_file_writes = 0,
                                      !.analysis_file_writes = 0]
            /\ pc' = IF outcome.tag = "ok" THEN "listed" ELSE "analysis_error"
    /\ UNCHANGED << config, data, pos, processed, failed, results, writes, call >>

\* run_analysis, lines 476-481: outlier_exps.to_csv(outlier_file)
SaveOutlierExperiments ==
    /\ pc = "listed"
    /\ Len(out.outlier_exps) > 0
    /\ out' = [out EXCEPT !.experiments_file_writes = @ + 1]
    /\ pc' = "experiments_saved"
    /\ UNCHANGED << config, data, pos, processed, failed, results, writes, call, arg >>

\* run_analysis, line 485: save_outlier_report(results)
SaveOutlierReport ==
    /\ \/ pc = "experiments_saved"
       \/ pc = "listed" /\ Len(out.outlier_exps) = 0
    /\ out' = [out EXCEPT !.analysis_file_writes = @ + 1]
    /\ pc' = "analysed"
    /\ UNCHANGED << config, data, pos, processed, failed, results, writes, call, arg >>

NextPipeline ==
    Next \/ AnalyzeRecords \/ SaveOutlierExperiments \/ SaveOutlierReport

SpecPipeline == Init /\ [][NextPipeline]_vars

(***************************************************************************)
(* Properties of detect_fracture_point and trim_curve_to_fracture          *)
(* (checked under SpecCurve)                                               *)
(***************************************************************************)
\* i is the first index of the largest element of s
IsFirstMax(s, i) ==
    /\ i \in Indices(s)
    /\ \A j \in Indices(s) : At(s, j) <= At(s, i) /\ (j < i => At(s, j) < At(s, i))
FirstMax(s) == CHOOSE i \in Indices(s) : IsFirstMax(s, i)

\* stress[i] < max(stress) * (1 - drop_threshold), in tenths
Dropped(s, i, c) ==
    At(s, i) * 10 < At(s, FirstMax(s)) * (10 - c.drop_threshold)

LeastOf(S) == CHOOSE i \in S : \A j \in S : i <= j

DropMode == call = "detect" /\ ~config.stop_max_stress
StopMode == call = "detect" /\ config.stop_max_stress
LongEnough == Len(arg.stress) >= config.min_points + 10

IsExample ==
    /\ arg.strain = ExampleStrain /\ arg.stress = ExampleStress
    /\ ~config.stop_max_stress /\ config.drop_threshold = 5 /\ config.min_points = 1

\* C1: on the end-to-end example (drop_threshold 0.5, min_points 1) the
\* largest stress is 30 at index 3, the fracture index is 5, and the trimmed
\* curve holds the samples of indices 0..5 of the cleaned curve.
C1_EndToEndExample ==
    (call = "trim" /\ IsExample) =>
        /\ IsFirstMax(arg.stress, 3) /\ At(arg.stress, 3) = 30
        /\ out.tag = "ok"
        /\ out.trim_info.fracture_idx = SomeIdx(5)
        /\ out.trim_info.zero_strain_idx = 0
        /\ out.strain = << 0, 1, 2, 3, 4, 5 >>
        /\ out.stress = << 0, 10, 20, 30, 25, 5 >>

\* C2 as stated: in stop-at-max mode detect_fracture returns the first index
\* of the global maximum stress for every curve it is given.
C2_StopAtMaxEveryCurve ==
    StopMode => (out.tag = "idx" /\ IsFirstMax(arg.stress, out.idx))

\* C2 amended: in stop-at-max mode detect_fracture returns the first index of
\* the global maximum stress for every curve of at least min_points+10
\* samples, and none for a shorter curve.
C2_StopAtMaxLongCurves ==
    StopMode =>
        IF LongEnough THEN out.tag = "idx" /\ IsFirstMax(arg.stress, out.idx)
        ELSE out = NoIdx

C2_Witness ==
    /\ StopMode /\ LongEnough
    /\ out.tag = "idx" /\ out.idx > 0
    /\ \E j \in Indices(arg.stress) : j > out.idx /\ At(arg.stress, j) = At(arg.stress, out.idx)

\* the indices the drop scan reads
Scanned ==
    IF LongEnough
    THEN { i \in Indices(arg.stress) :
             i >= FirstMax(arg.stress) /\ i < Len(arg.stress) - config.min_points }
    ELSE {}

\* C3: in drop-threshold mode (drop_threshold in [0,1], min_points >= 0)
\* detect_fracture never returns an index before the max-stress index, and it
\* returns none when no scanned sample is below max_stress*(1-drop_threshold).
C3_DropNeverBeforeMax ==
    (DropMode /\ InRange(config)) =>
        /\ out.tag \in {"idx", "none"}
        /\ out.tag = "idx" => out.idx >= FirstMax(arg.stress)
        /\ (\A i \in Scanned : ~Dropped(arg.stress, i, config)) => out = NoIdx

C3_Witness ==
    /\ DropMode /\ InRange(config)
    /\ out.tag = "idx" /\ out.idx > FirstMax(arg.stress)
    /\ \E j \in Indices(arg.stress) :
         j < FirstMax(arg.stress) /\ Dropped(arg.stress, j, config)

\* the result C4 describes for a scan over the indices lo..hi
FirstDropIn(lo, hi) ==
    LET Q == { i \in lo .. hi : i \in Indices(arg.stress) /\ Dropped(arg.stress, i, config) }
    IN  IF Q = {} THEN NoIdx ELSE SomeIdx(LeastOf(Q))

\* C4 as stated: with min_points >= 1 and at least min_points+10 samples the
\* scan covers the indices from the max-stress index through len-min_points
\* and returns the first that is below the threshold, none only if there is
\* none.
C4_ScanThroughLenMinusMinPoints ==
    (DropMode /\ config.min_points >= 1 /\ LongEnough) =>
        out = FirstDropIn(FirstMax(arg.stress), Len(arg.stress) - config.min_points)

\* C4 amended: the scan covers the indices from the max-stress index through
\* len-min_points-1 (index len-min_points is not read).
C4_ScanBelowLenMinusMinPoints ==
    (DropMode /\ config.min_points >= 1 /\ LongEnough) =>
        out = FirstDropIn(FirstMax(arg.stress), Len(arg.stress) - config.min_points - 1)

\* the last index read is the first below the threshold, and it is returned
C4_Witness ==
    /\ DropMode /\ config.min_points >= 1 /\ LongEnough
    /\ out = SomeIdx(Len(arg.stress) - config.min_points - 1)
    /\ out.idx > FirstMax(arg.stress)

\* C5: every TrimInfo that trim produces, and every record's trim_info, has
\* fracture_idx >= zero_strain_idx when a fracture index is present.
C5_FractureNotBeforeZeroStrain ==
    /\ (call = "trim" /\ out.tag = "ok" /\ out.trim_info.fracture_idx.tag = "idx")
          => out.trim_info.fracture_idx.idx >= out.trim_info.zero_strain_idx
    /\ (call = "fit" /\ out.tag = "record" /\ out.trim_info.fracture_idx.tag = "idx")
          => out.trim_info.fracture_idx.idx >= out.trim_info.zero_strain_idx

C5_Witness ==
    /\ call = "trim" /\ out.tag = "ok"
    /\ out.trim_info.fracture_idx.tag = "idx"
    /\ out.trim_info.zero_strain_idx > 0
    /\ out.trim_info.fracture_idx.idx > out.trim_info.zero_strain_idx

(***************************************************************************)
(* Properties of fit_polynomial_to_experiment (checked under SpecCurve)    *)
(***************************************************************************)
Cleaned == CleanPairs(arg)
CleanedCount == Len(Cleaned.strain)

\* the number of samples of the cleaned curve cv from the zero-strain index
\* up to, and without, the fracture index (to the end when there is none)
CountTrimmed(cv, c) ==
    IF Len(cv.strain) = 0 THEN 0
    ELSE LET a == [i \in Indices(cv.strain) |-> Abs(At(cv.strain, i))]
             z == CHOOSE i \in DOMAIN a :
                    \A j \in DOMAIN a : a[i] <= a[j] /\ (j < i => a[i] < a[j])
             f == DetectFracturePoint(cv.strain, cv.stress, c)
             end == IF f.tag = "idx" THEN f.idx ELSE Len(cv.strain)
         IN  Cardinality({ i \in DOMAIN a : z <= i /\ i < end })
TrimmedCount == CountTrimmed(CleanPairs(arg), config)

\* C6 as stated: the 10-sample minimum is applied to the cleaned curve: an
\* experiment with fewer than 10 valid pairs is skipped, and one with at
\* least 10 valid pairs is not skipped for too few points.
C6_MinimumOnCleanedCurve ==
    (call = "fit" /\ arg.kind = "dict") =>
        LET n == CleanedCount
        IN  /\ n < 10 => out.tag = "none"
            /\ n >= 10 => out.skip # "too_few"

\* C6 amended: the 10-sample minimum is applied to the trimmed curve: an
\* experiment is skipped for too few points exactly when its trimmed curve
\* has fewer than 10 samples (skipped as having no curve when it has none),
\* and every experiment whose trimmed curve has at least 10 goes on to the fit.
C6_MinimumOnTrimmedCurve ==
    (call = "fit" /\ arg.kind = "dict") =>
        LET n == TrimmedCount
        IN  /\ out.tag = "none" <=> n < 10
            /\ out.skip = "too_few" <=> (1 <= n /\ n < 10)
            /\ out.skip = "no_curve" <=> n = 0

C6_Witness ==
    /\ call = "fit" /\ arg.kind = "dict"
    /\ CleanedCount >= 10
    /\ out.skip = "too_few"

\* C7: a curve whose fitted stress values are all equal (SST = 0) is not
\* turned into a record: no record has a constant stress curve or an
\* undefined r_squared.
C7_DegenerateFitSkipped ==
    (call = "fit" /\ out.tag = "record") =>
        /\ out.stress_range[1] # out.stress_range[2]
        /\ out.r_squared.tag = "num"

(***************************************************************************)
(* Properties of the batch (checked under Spec)                            *)
(***************************************************************************)
InBatch == pc \in {"loop", "returned", "saved"}
BatchDone == pc \in {"returned", "saved"}
SelectedNow == Selected(data, config)

\* C8: the loop never aborts; while it runs processed + failed is the number
\* of experiments visited and results holds processed records; when it
\* returns every selected experiment has been visited.
C8_BatchTally ==
    /\ pc # "aborted"
    /\ InBatch =>
          /\ processed + failed = pos
          /\ Len(results) = processed
          /\ pos <= Len(SelectedNow)
    /\ BatchDone => pos = Len(SelectedNow)

C8_Witness ==
    /\ pc = "returned"
    /\ processed >= 1 /\ failed >= 1
    /\ \E i \in Indices(SelectedNow) : At(SelectedNow, i).kind = "not_dict"

\* C9: an experiment skipped for being below the minimum point count is not
\* counted as failed: failed counts only the other experiments without a
\* record.
C9_TooFewNotCountedFailed ==
    BatchDone =>
        failed = Cardinality({ i \in Indices(SelectedNow) :
                    LET r == FitPolynomialToExperiment(At(SelectedNow, i), config)
                    IN  r.tag = "none" /\ r.skip # "too_few" })

\* C10: with an out-of-range value in the loaded configuration the run ends
\* at startup with a ConfigError: the loop is not entered, nothing is
\* processed and nothing is written.
C10_ConfigErrorAtStartup ==
    (pc # "start" /\ ~InRange(config)) =>
        /\ pc = "config_error"
        /\ pos = 0 /\ processed = 0 /\ failed = 0
        /\ writes = 0


(***************************************************************************)
(* Properties of the zero-strain index                                     *)
(***************************************************************************)
\* the curve that trim_curve_to_fracture was given by the call in progress
TrimInput == IF call = "fit" THEN CleanPairs(arg).strain ELSE arg.strain

IsFirstMinAbs(s, i) ==
    /\ i \in Indices(s)
    /\ \A j \in Indices(s) : Abs(At(s, i)) <= Abs(At(s, j))
    /\ \A j \in Indices(s) : Abs(At(s, j)) = Abs(At(s, i)) => i <= j

\* C20: the zero-strain index that trimming reports is an index of the whole
\* cleaned curve at which |strain| is minimal; when several samples share
\* that minimum it is the smallest such index.
C20_ZeroStrainFirstMinimum ==
    /\ (call = "trim" /\ out.tag = "ok")
          => IsFirstMinAbs(TrimInput, out.trim_info.zero_strain_idx)
    /\ (call = "fit" /\ out.tag = "record")
          => IsFirstMinAbs(TrimInput, out.trim_info.zero_strain_idx)

\* a curve with two samples of minimal |strain|, the first of them reported
C20_Witness ==
    /\ call = "trim" /\ out.tag = "ok"
    /\ \E i, j \in Indices(arg.strain) :
         /\ i < j
         /\ Abs(At(arg.strain, i)) = Abs(At(arg.strain, j))
         /\ out.trim_info.zero_strain_idx = i


(***************************************************************************)
(* Properties of the fit                                                   *)
(***************************************************************************)
IsLineExample == arg.strain = LineStrain /\ arg.stress = LineStress

IsNumber(f, v) == f.tag = "num" /\ f.num = v * f.den

\* C18: the degree-1 fit of strain [0,1,2,3], stress [0,2,4,6] stores the
\* coefficients [0, 2] (lowest power first) in polynomial_coefficients and
\* reports r_squared = 1.
C18_LineExampleCoefficients ==
    (call = "polyfit" /\ IsLineExample /\ config.polynomial_degree = 1)
       => /\ out.tag = "fitted"
          /\ Len(out.polynomial_coefficients.coef) = 2
          /\ IsNumber(out.polynomial_coefficients.coef[1], 0)
          /\ IsNumber(out.polynomial_coefficients.coef[2], 2)
          /\ IsNumber(out.r_squared, 1)

\* the points that the fit of the call in progress was given
FittedStrain == ExtractStressStrainData(arg, config).strain

\* C19: for every degree >= 1, a fit of a trimmed curve with fewer than
\* degree + 1 distinct points yields no record.
C19_UnderdeterminedFitFails ==
    (call = "fit" /\ out.tag = "record" /\ config.polynomial_degree >= 1)
       => DistinctPoints(FittedStrain) >= config.polynomial_degree + 1


(***************************************************************************)
(* Properties of the trait aggregation                                     *)
(***************************************************************************)
\* the numeric measurements of one trait type in a trait list, as a bag of
\* positions
NumericOf(traits, type) ==
    { i \in 1 .. Len(traits) :
        /\ traits[i].type = Some(type)
        /\ traits[i].measurement.kind \in {"number", "numeral"} }

RECURSIVE SumOver(_, _)
SumOver(traits, I) ==
    IF I = {} THEN 0
    ELSE LET i == CHOOSE i \in I : TRUE
         IN  traits[i].measurement.v + SumOver(traits, I \ {i})

\* the value aggregated for a trait type, nan when the type has no column
AggregatedValue(aggregated, type) ==
    IF \E i \in 1 .. Len(aggregated) : aggregated[i].column = "trait_" \o type
    THEN (CHOOSE r \in { aggregated[i] : i \in 1 .. Len(aggregated) } :
             r.column = "trait_" \o type).value
    ELSE NaN

Present == DropNa(arg)

\* how each non-missing row lies to the band of each level k:
\* 1 beyond, 0 on its edge, -1 inside
BandSides(column) ==
    LET present == DropNa(column)
        n == Len(present)
        den == CommonDen(present)
        x == [i \in 1 .. n |-> present[i].value.num * (den \div present[i].value.den)]
        S == SumSeq(x)
        Q == SumSeq([i \in 1 .. n |-> (n * x[i] - S) * (n * x[i] - S)])
    IN  [k \in SigmaLevels |->
           [i \in 1 .. n |->
              LET lhs == (n * x[i] - S) * (n * x[i] - S) * (n - 1)
                  rhs == k * k * Q
              IN  IF lhs > rhs THEN 1 ELSE IF lhs = rhs THEN 0 ELSE -1]]

Returned(k) == { out.outliers[k][j].experiment_id : j \in 1 .. Len(out.outliers[k]) }

\* C11: at every level k, find_outliers returns exactly the experiments of
\* the group whose non-missing value lies strictly below mean - k*std or
\* strictly above mean + k*std, each once; a value on the band's edge is not
\* returned.
C11_OutliersStrictlyBeyondBand ==
    call = "statistics" =>
       LET present == Present
           side == BandSides(arg)
       IN  \A k \in SigmaLevels :
              /\ Returned(k) =
                    { present[i].experiment_id :
                        i \in { j \in 1 .. Len(present) :
                                  Len(present) >= 2 /\ side[k][j] = 1 } }
              /\ Cardinality(Returned(k)) = Len(out.outliers[k])

\* a group with one value on the lower edge of the band of level 1, not
\* returned, and one above the band, returned
C11_Witness ==
    /\ call = "statistics"
    /\ Len(Present) >= 2
    /\ \E i, j \in 1 .. Len(Present) :
         /\ BandSides(arg)[1][i] = 0
         /\ Present[i].experiment_id \notin Returned(1)
         /\ BandSides(arg)[1][j] = 1
         /\ Present[j].experiment_id \in Returned(1)

\* C15: for a column with exactly two non-missing values a and b the mean is
\* (a + b) / 2 and the standard deviation is the sample one (divisor n - 1):
\* std^2 * 2 = (a - b)^2.
C15_TwoValueStatistics ==
    (call = "statistics" /\ Len(Present) = 2) =>
       LET a == Present[1].value
           b == Present[2].value
           diff == FracSub(a, b)
           mean == out.statistics.mean
           variance == out.statistics.variance
       IN  /\ out.statistics.tag = "stats"
           /\ out.statistics.count = 2
           /\ mean.tag = "num"
           /\ mean.num * 2 * a.den * b.den = (a.num * b.den + b.num * a.den) * mean.den
           /\ variance.tag = "num"
           /\ variance.num * 2 * diff.den * diff.den = diff.num * diff.num * variance.den

\* two different values beside a missing one
C15_Witness ==
    /\ call = "statistics"
    /\ Len(arg) = 3 /\ Len(Present) = 2
    /\ Present[1].value = Fraction(1, 2)
    /\ Present[2].value = Fraction(-1, 1)
    /\ out.statistics.mean = Fraction(-1, 4)
    /\ out.statistics.variance = Fraction(9, 8)


(***************************************************************************)
(* Properties of the analysis run                                          *)
(***************************************************************************)
Ran == call = "run_analysis" /\ out.tag # "KeyError"

\* the experiments of the frame that have the key components of row i
GroupMembers(i) ==
    { j \in 1 .. Len(out.experiments_df.rows) :
        /\ out.experiments_df.rows[j].family = out.experiments_df.rows[i].family
        /\ out.experiments_df.rows[j].name = out.experiments_df.rows[i].name
        /\ out.experiments_df.rows[j].subsampletype
              = out.experiments_df.rows[i].subsampletype }

\* the experiments of the frame that have the key components of an entry
EntryMembers(g) ==
    { j \in 1 .. Len(out.experiments_df.rows) :
        /\ out.experiments_df.rows[j].family = g.family
        /\ out.experiments_df.rows[j].name = g.name
        /\ out.experiments_df.rows[j].subsampletype = g.subsampletype }

ResultEntries == { out.results[g] : g \in 1 .. Len(out.results) }
FlaggedEntries == { out.outlier_exps[j] : j \in 1 .. Len(out.outlier_exps) }

\* the traits of an entry that list experiment i as an outlier at a level
OutlierTraitsOf(g, i, k) ==
    { t \in 1 .. Len(g.traits) :
        \E j \in 1 .. Len(g.traits[t].outliers[k]) :
           g.traits[t].outliers[k][j].experiment_id = i }

\* C12: every entry of the flagged list has outlier_traits / total_traits >=
\* the configured threshold, where total_traits is the number of traits
\* evaluated in the group of that experiment and outlier_traits the number
\* of them that list the experiment at the configured level.
C12_FlaggedReachThreshold ==
    Ran =>
       \A x \in FlaggedEntries :
          /\ x.outlier_traits * ThresholdScale
                >= config.outlier_trait_threshold * x.total_traits
          /\ \E g \in ResultEntries :
                /\ x.experiment_id \in EntryMembers(g)
                /\ x.total_traits = Len(g.traits)
                /\ x.outlier_traits
                      = Cardinality(OutlierTraitsOf(g, x.experiment_id,
                                                    config.sigma_level))

\* three of ten traits at the threshold 0.30
C12_Witness ==
    /\ Ran
    /\ config.outlier_trait_threshold = 30
    /\ \E x \in FlaggedEntries : x.outlier_traits = 3 /\ x.total_traits = 10

\* C13: for every threshold in [0, 1], every experiment of an analysed group
\* whose ratio of outlier traits to evaluated traits reaches the threshold is
\* in the flagged list (3 of 10 traits: in the list at 0.30, not at 0.31).
C13_EveryReachingExperimentFlagged ==
    Ran =>
       /\ \A g \in ResultEntries :
             \A i \in EntryMembers(g) :
                (/\ Len(g.traits) > 0
                 /\ Cardinality(OutlierTraitsOf(g, i, config.sigma_level))
                       * ThresholdScale
                       >= config.outlier_trait_threshold * Len(g.traits))
                   => \E x \in FlaggedEntries : x.experiment_id = i
       /\ (arg = TenTraitFile /\ config.sigma_level = 1)
             => ((\E x \in FlaggedEntries : x.experiment_id = 3)
                    <=> config.outlier_trait_threshold <= 30)

\* C14: a group of exactly one experiment has no entry in the results, and
\* in an entry no trait has statistics from fewer than 2 non-missing values.
C14_NoStatisticsBelowTwo ==
    Ran =>
       \A g \in ResultEntries :
          /\ Cardinality(EntryMembers(g)) >= 2
          /\ g.sample_count = Cardinality(EntryMembers(g))
          /\ \A t \in 1 .. Len(g.traits) :
                /\ g.traits[t].statistics.tag = "stats"
                /\ g.traits[t].statistics.count >= 2
                /\ g.traits[t].statistics.count =
                      Cardinality({ j \in EntryMembers(g) :
                         ~IsNaN(CellOf(out.experiments_df.rows[j].cells,
                                       g.traits[t].trait)) })

\* a group of two beside a group of one; in the group of two r_squared has a
\* single value and no entry, coeff_1 has one
C14_Witness ==
    /\ Ran
    /\ Len(out.experiments_df.rows) = 3
    /\ Cardinality(GroupMembers(1)) = 2
    /\ Cardinality(GroupMembers(3)) = 1
    /\ Len(out.results) = 1
    /\ Cardinality({ j \in GroupMembers(1) :
          ~IsNaN(CellOf(out.experiments_df.rows[j].cells, "r_squared")) }) = 1
    /\ \A t \in 1 .. Len(out.results[1].traits) :
          out.results[1].traits[t].trait # "r_squared"
    /\ \E t \in 1 .. Len(out.results[1].traits) :
          out.results[1].traits[t].trait = "coeff_1"

\* C16: experiments without family, species name or subsample type are
\* grouped like the others: the experiments with the same key components
\* (missing ones included) form one group, and every such group of at least
\* 2 experiments has its entry in the results.
C16_MissingKeysGrouped ==
    Ran =>
       \A i \in 1 .. Len(out.experiments_df.rows) :
          Cardinality(GroupMembers(i)) >= 2 =>
             \E g \in ResultEntries :
                /\ i \in EntryMembers(g)
                /\ g.sample_count = Cardinality(GroupMembers(i))

(***************************************************************************)
(* Properties of the point counts of a TrimInfo (checked under SpecCurve)  *)
(***************************************************************************)
\* C21: for a paired curve the TrimInfo that trim produces counts the samples
\* of the curve it was given and of the trimmed curve, and trimmed_points is
\* never larger than original_points.
C21_TrimmedNotLonger ==
    /\ (call = "trim" /\ out.tag = "ok") =>
          /\ out.trim_info.original_points = Len(arg.strain)
          /\ out.trim_info.trimmed_points = Len(out.strain)
          /\ out.trim_info.trimmed_points <= out.trim_info.original_points
    /\ (call = "fit" /\ out.tag = "record") =>
          /\ out.trim_info.original_points = Len(TrimInput)
          /\ out.trim_info.trimmed_points <= out.trim_info.original_points

\* samples are cut at both ends of the curve
C21_Witness ==
    /\ call = "trim" /\ out.tag = "ok"
    /\ out.trim_info.zero_strain_idx > 0
    /\ out.trim_info.fracture_idx.tag = "idx"
    /\ out.trim_info.trimmed_points < out.trim_info.original_points

(***************************************************************************)
(* Properties of the cleaning of extract_stress_strain_data                *)
(* (checked under SpecCurve)                                               *)
(***************************************************************************)
\* the indices at which the raw arrays both hold a value
PresentPairs ==
    { i \in Indices(arg.strain) \cap Indices(arg.stress) :
        i \notin arg.strainNull /\ i \notin arg.stressNull }

\* the j-th smallest element of a set of indices, j from 1
NthOf(S, j) == CHOOSE k \in S : Cardinality({ i \in S : i < k }) = j - 1

\* C22: the cleaned strain and stress arrays have equal length and hold
\* exactly the pairs (strain[i], stress[i]) of the indices i at which both
\* values are present, in index order: no pair with an absent value is kept
\* and no fully present pair is dropped.
C22_CleanedPairs ==
    call = "clean" =>
        /\ Len(out.strain) = Len(out.stress)
        /\ Len(out.strain) = Cardinality(PresentPairs)
        /\ \A j \in 1 .. Len(out.strain) :
              /\ out.strain[j] = At(arg.strain, NthOf(PresentPairs, j))
              /\ out.stress[j] = At(arg.stress, NthOf(PresentPairs, j))

\* arrays of different lengths, a null in each at different indices, and a
\* pair kept after a dropped one
C22_Witness ==
    /\ call = "clean"
    /\ Len(arg.strain) # Len(arg.stress)
    /\ \E i \in arg.strainNull : i \notin arg.stressNull /\ i \in Indices(arg.stress)
    /\ \E i \in arg.stressNull : i \notin arg.strainNull /\ i \in Indices(arg.strain)
    /\ Len(out.strain) >= 1
    /\ \E i \in PresentPairs : \E k \in 0 .. i : k \notin PresentPairs

(***************************************************************************)
(* Properties of the order of the outliers (checked under SpecOutlier)     *)
(***************************************************************************)
\* the position of an experiment in the group table
RowOf(column, experiment_id) ==
    CHOOSE i \in 1 .. Len(column) : column[i].experiment_id = experiment_id

\* the rows of a returned frame are in descending order of |deviation|
Descending(frame) ==
    \A i \in 1 .. Len(frame) - 1 :
       ~FracLess(frame[i].deviation.square, frame[i + 1].deviation.square)

\* rows of equal |deviation| are in the order of the group table
TiesInTableOrder(column, frame) ==
    \A i, j \in 1 .. Len(frame) :
       (i < j /\ FracEq(frame[i].deviation.square, frame[j].deviation.square))
          => RowOf(column, frame[i].experiment_id) < RowOf(column, frame[j].experiment_id)

\* C23: the list find_outliers returns is in descending order of the absolute
\* deviation |(value - mean)/std|, and experiments of equal absolute deviation
\* keep the relative order they have in the group table.
C23_DescendingStableOrder ==
    call = "statistics" =>
        \A k \in SigmaLevels :
           /\ Descending(out.outliers[k])
           /\ TiesInTableOrder(arg, out.outliers[k])

(***************************************************************************)
(* Properties of the files the pipeline writes (checked under              *)
(* SpecPipeline)                                                           *)
(***************************************************************************)
\* where the processor has ended without its results
ProcessorFailed == pc \in {"config_error", "load_error", "aborted"}
\* where the processor has written its file
ProcessorDone ==
    pc \in {"saved", "listed", "experiments_saved", "analysed", "analysis_error"}
\* where run_analysis has its results
AnalysisDone == pc \in {"listed", "experiments_saved", "analysed"}

RecordFileOnce ==
    /\ writes \in {0, 1}
    /\ ProcessorDone <=> writes = 1
    /\ writes = 1 => pos = Len(SelectedNow) /\ Len(results) = processed
    /\ ProcessorFailed => writes = 0

AnalysisFilesOnce ==
    /\ pc = "analysis_error" =>
          out.experiments_file_writes = 0 /\ out.analysis_file_writes = 0
    /\ AnalysisDone =>
          /\ out.tag = "ok"
          /\ out.analysis_file_writes = IF pc = "analysed" THEN 1 ELSE 0
          /\ out.experiments_file_writes =
                IF pc # "listed" /\ Len(out.outlier_exps) > 0 THEN 1 ELSE 0

\* a step that writes a file changes nothing that is computed
WritesComeLast ==
    /\ writes' # writes =>
          /\ pc = "returned" /\ pos = Len(SelectedNow)
          /\ writes' = writes + 1
          /\ results' = results /\ processed' = processed /\ failed' = failed
    /\ (AnalysisDone /\ out' # out) =>
          /\ out'.results = out.results
          /\ out'.outlier_exps = out.outlier_exps
          /\ out'.experiments_df = out.experiments_df

Alone(e) == FitPolynomialToExperiment(e, config)

\* the records of the experiments d[1..n], each processed alone, in order
RecordsAlone(d, n) ==
    SelectSeq([i \in 1 .. n |-> Alone(d[i])], LAMBDA r : r.tag = "record")

\* how often x occurs in the sequence s
Occurrences(s, x) == Cardinality({ k \in 1 .. Len(s) : s[k] = x })

\* the experiments in another order
Reordered(d, p) == [i \in 1 .. Len(d) |-> d[p[i]]]

\* C25: the record or skip of an experiment is that of the experiment
\* processed alone, whatever was processed before it; so, without a cap on
\* the experiments, every order of a collection gives the same records, each
\* as often.
C25_RecordsOrderFree ==
    /\ InBatch => results = RecordsAlone(SelectedNow, pos)
    /\ (BatchDone /\ config.max_experiments = 0) =>
          \A p \in Permutations(1 .. Len(data)) :
             LET other == RecordsAlone(Reordered(data, p), Len(data))
             IN  /\ Len(other) = Len(results)
                 /\ \A k \in 1 .. Len(results) :
                       Occurrences(other, results[k]) = Occurrences(results, results[k])

\* two different experiments, one before the other, both with a record, and
\* the records differ
C25_Witness ==
    /\ pc = "returned" /\ config.max_experiments = 0
    /\ Len(data) = 2 /\ data[1] # data[2]
    /\ Len(results) = 2 /\ results[1] # results[2]
    /\ results[1] = Alone(data[1]) /\ results[2] = Alone(data[2])

(***************************************************************************)
(* Properties of the entries of the report (checked under SpecOutlier)     *)
(***************************************************************************)
\* the groups of at least 2 experiments, each as the set of its experiments
GroupsOfTwo ==
    { G \in { GroupMembers(i) : i \in 1 .. Len(out.experiments_df.rows) } :
        Cardinality(G) >= 2 }

\* C26: groups of different keys (family, species name, subsample type) never
\* share an entry: every group of at least 2 experiments has its own entry in
\* the results and in the report, so there are as many entries as there are
\* groups of at least 2 experiments, whatever the components are spelt like.
C26_OneEntryPerGroup ==
    Ran =>
       /\ Len(out.results) = Cardinality(GroupsOfTwo)
       /\ \A G \in GroupsOfTwo :
             \E g \in 1 .. Len(out.results) :
                /\ EntryMembers(out.results[g]) = G
                /\ out.results[g].sample_count = Cardinality(G)

(***************************************************************************)
(* Properties of the records (checked under SpecCurve)                     *)
(***************************************************************************)
\* C27: every record has data_points >= 10 and data_points equal to the
\* trimmed_points of its trim_info: the fit is made on the trimmed curve,
\* never on fewer than 10 points.
C27_RecordPointCount ==
    (call = "fit" /\ out.tag = "record") =>
        /\ out.data_points >= 10
        /\ out.data_points = out.trim_info.trimmed_points
        /\ out.data_points = TrimmedCount

\* a record of exactly 10 points from a longer cleaned curve
C27_Witness ==
    /\ call = "fit" /\ out.tag = "record"
    /\ out.data_points = 10
    /\ CleanedCount > 10


(***************************************************************************)
(* The peak in stop-at-max mode (checked under SpecCurve)                  *)
(***************************************************************************)
\* trim_curve_to_fracture returned a trimmed curve cut at a fracture index
\* found in stop-at-max mode
StoppedAtMax ==
    /\ call = "trim" /\ config.stop_max_stress
    /\ out.tag = "ok" /\ out.trim_info.fracture_detected

\* the cleaned stress from the zero-strain index on
FromZeroStrain == SubSeq(arg.stress, out.trim_info.zero_strain_idx + 1, Len(arg.stress))

\* C28: in stop-at-max mode, when a fracture index is returned, the trimmed
\* curve ends at the sample of the global maximum stress, and max_stress of
\* the TrimInfo is the maximum stress of the cleaned curve from the
\* zero-strain index on.
C28_StopAtMaxKeepsPeak ==
    StoppedAtMax =>
        /\ out.stress[Len(out.stress)] = MaxSeq(arg.stress)
        /\ out.trim_info.max_stress = MaxSeq(FromZeroStrain)


(***************************************************************************)
(* The outlier sets of the three levels (checked under SpecOutlier)        *)
(***************************************************************************)
\* the experiments one analysed column lists at level k
ListedAt(outliers, k) ==
    { outliers[k][j].experiment_id : j \in 1 .. Len(outliers[k]) }

Nested(outliers) ==
    /\ ListedAt(outliers, 3) \subseteq ListedAt(outliers, 2)
    /\ ListedAt(outliers, 2) \subseteq ListedAt(outliers, 1)

\* the non-missing values of the column are all equal
AllEqual(present) ==
    \A i, j \in 1 .. Len(present) : present[i].value = present[j].value

\* C29: for every group and column with statistics the outlier sets are
\* nested, 3-sigma within 2-sigma within 1-sigma, and a column whose
\* non-missing values are all equal (std = 0) has no outliers at any level;
\* this holds of find_outliers_in_group on a column and of every trait entry
\* of an analysis run.
C29_SigmaLevelsNested ==
    /\ (call = "statistics" /\ out.statistics.tag = "stats") =>
          /\ Nested(out.outliers)
          /\ (AllEqual(Present) /\ Len(Present) >= 2)
                => out.statistics.variance = Fraction(0, 1)
          /\ AllEqual(Present) => \A k \in SigmaLevels : out.outliers[k] = << >>
    /\ Ran =>
          \A g \in ResultEntries :
             \A t \in 1 .. Len(g.traits) :
                /\ Nested(g.traits[t].outliers)
                /\ g.traits[t].statistics.variance = Fraction(0, 1)
                      => \A k \in SigmaLevels : g.traits[t].outliers[k] = << >>

\* a column of 18 values whose three levels list three, two and one
\* experiment
C29_Witness ==
    /\ call = "statistics"
    /\ ListedAt(out.outliers, 1) = { 16, 17, 18 }
    /\ ListedAt(out.outliers, 2) = { 17, 18 }
    /\ ListedAt(out.outliers, 3) = { 18 }

\* a column of equal values: std = 0 and nothing listed
C29_WitnessEqual ==
    /\ call = "statistics"
    /\ Len(Present) = 3 /\ AllEqual(Present)
    /\ out.statistics.variance = Fraction(0, 1)
    /\ \A k \in SigmaLevels : out.outliers[k] = << >>


(***************************************************************************)
(* The list of flagged experiments (checked under SpecOutlier)             *)
(***************************************************************************)
TraitNamesOf(x) == { x.outlier_trait_list[j] : j \in 1 .. Len(x.outlier_trait_list) }

\* the entry of the experiment's own group and the traits it evaluated
OwnGroupEvaluates(x) ==
    \E g \in ResultEntries :
       /\ x.experiment_id \in EntryMembers(g)
       /\ x.family = g.family /\ x.name = g.name
       /\ x.subsampletype = g.subsampletype
       /\ x.total_traits = Len(g.traits)
       /\ TraitNamesOf(x) \subseteq { g.traits[t].trait : t \in 1 .. Len(g.traits) }

\* C30: in the flagged list each experiment id appears at most once, and
\* every entry has 1 <= outlier_traits <= total_traits and a contributing
\* trait list of exactly outlier_traits distinct names, each a trait
\* evaluated in the group of that experiment.
C30_FlaggedEntriesWellFormed ==
    Ran =>
       /\ \A i, j \in 1 .. Len(out.outlier_exps) :
             out.outlier_exps[i].experiment_id = out.outlier_exps[j].experiment_id
                => i = j
       /\ \A x \in FlaggedEntries :
             /\ 1 <= x.outlier_traits
             /\ x.outlier_traits <= x.total_traits
             /\ Len(x.outlier_trait_list) = x.outlier_traits
             /\ Cardinality(TraitNamesOf(x)) = x.outlier_traits
             /\ OwnGroupEvaluates(x)

\* two flagged experiments of one group, one of them listed under several of
\* the traits of the group, not all
C30_Witness ==
    /\ Ran
    /\ Len(out.outlier_exps) = 2
    /\ out.outlier_exps[1].experiment_id # out.outlier_exps[2].experiment_id
    /\ \E x \in FlaggedEntries :
          /\ x.outlier_traits > 1
          /\ x.outlier_traits < x.total_traits
          /\ Cardinality(TraitNamesOf(x)) = x.outlier_traits

=============================================================================
